---- MODULE Spec2Model ----
(***************************************************************************)
(* Secure QR generator (src/secure_qr_generator.py), counterfeit detector  *)
(* (src/counterfeit_detector.py) and the API layer that stores the         *)
(* security metadata and gates the PDF (src/main.py).                      *)
(*                                                                         *)
(* Rasters are functions y -> x -> <<r, g, b>> with 0-based indices, as    *)
(* numpy arrays are.  Scores are kept in hundredths (the code rounds every *)
(* reported score to two decimals), the composite in ten-thousandths.      *)
(*                                                                         *)
(* Three things the code takes from libraries are stood in for:            *)
(*   - the QR symbol encoder: BaseSymbol, a small bilevel module matrix;   *)
(*   - the two seeded pseudo-random generators: a linear congruential      *)
(*     generator, which like them is a function of the seed alone;         *)
(*   - the DCT: the inverse transform of the watermarked coefficients is   *)
(*     the gray plane plus a small field fixed by the signature (Dev), and *)
(*     the Pearson correlation at verification is an input of the call.    *)
(***************************************************************************)
EXTENDS Integers, Sequences, FiniteSets, TLC

\* ------------------------------------------------------------- bounds
Modules == 5
WmDev == 2
MaxScanLimit == 2
MaxSide == 9
StripWidth == 4

\* -------------------------------------------------- program constants
ghost_dot_density == 40
ghost_lo == 250
ghost_hi == 254
fingerprint_strength == 3
step == 5
SigSize == 8
authenticity_threshold == 70
suspicious_threshold == 40
w_ghost_dots == 45
w_frequency == 10
w_fingerprint == 35
w_metadata == 10

\* ------------------------------------------------------------ helpers
Min(a, b) == IF a <= b THEN a ELSE b
Max(a, b) == IF a >= b THEN a ELSE b
Abs(a) == IF a < 0 THEN -a ELSE a
Clip(v, lo, hi) == Max(lo, Min(hi, v))

\* floor of num/den for den > 0 and any num
FloorDiv(num, den) == num \div den

\* num/den (den > 0) rounded to the nearest integer, ties to the even one
RoundHalfEven(num, den) ==
    LET q == num \div den
        r == num % den
    IN  IF 2 * r < den THEN q
        ELSE IF 2 * r > den THEN q + 1
        ELSE IF q % 2 = 0 THEN q ELSE q + 1

\* the sum of s[lo..hi], halving the range
RECURSIVE SumRange(_, _, _)
SumRange(s, lo, hi) ==
    IF lo > hi THEN 0
    ELSE IF lo = hi THEN s[lo]
    ELSE LET mid == (lo + hi) \div 2
         IN  SumRange(s, lo, mid) + SumRange(s, mid + 1, hi)
SumSeq(s) == SumRange(s, 1, Len(s))

\* ------------------------------------------------------------ rasters
Height(img) == Cardinality(DOMAIN img)
Width(img) == IF Height(img) = 0 THEN 0 ELSE Cardinality(DOMAIN img[0])
White == <<255, 255, 255>>
Black == <<0, 0, 0>>

\* numpy indexing img_array[y, x]: a negative index counts from the end
PyIndex(i, n) == IF i < 0 THEN i + n ELSE i
InRange(i, n) == -n <= i /\ i < n
PixelAt(img, y, x) == img[PyIndex(y, Height(img))][PyIndex(x, Width(img))]

\* cv2.cvtColor(.., COLOR_RGB2GRAY) on 8-bit data: fixed point, 14 bits
GrayOf(p) == (p[1] * 4899 + p[2] * 9617 + p[3] * 1868 + 8192) \div 16384

\* ---------------------------------------------- the external QR encoder
Datas == {"urlA", "urlB"}
DocIds == {"d1", "d2"}

\* the bilevel symbol the encoder returns for the payload: TRUE is a dark module.
\* Row 0 and column 4 are function patterns, dark whatever the payload and the size
BaseSymbol(data, i, j) ==
    IF data = "urlA" THEN (i + j) % 2 = 0 \/ i = 0
    ELSE (i * j) % 3 = 0 \/ j = 4

\* qr.make_image(...).convert('RGB'): box_size pixels per module, border modules of white
MakeImage(data, box_size, border) ==
    LET n == (Modules + 2 * border) * box_size
    IN  [y \in 0..(n - 1) |-> [x \in 0..(n - 1) |->
            LET i == (y \div box_size) - border
                j == (x \div box_size) - border
            IN  IF i \in 0..(Modules - 1) /\ j \in 0..(Modules - 1) /\ BaseSymbol(data, i, j)
                THEN Black ELSE White]]

\* ---------------------------------------- seeded pseudo-random generators
RandNext(s) == ((s * 75) + 74) % 65537

\* random.Random(seed): the generator's state is a function of the seed only
SeedOf(seed) == IF seed = "d1" THEN 101 ELSE IF seed = "d2" THEN 2027 ELSE 40009

\* np.random.RandomState(int(sha256(seed).hexdigest()[:8], 16))
NpSeedOf(seed) == IF seed = "d1" THEN 777 ELSE IF seed = "d2" THEN 31337 ELSE 5

\* the state after n draws
RECURSIVE RandAfter(_, _)
RandAfter(s, n) == IF n = 0 THEN s ELSE RandAfter(RandNext(s), n - 1)

\* the next n states of the generator, in the order they are drawn
RECURSIVE Draws(_, _)
Draws(s, n) == IF n = 0 THEN <<>> ELSE <<RandNext(s)>> \o Draws(RandNext(s), n - 1)

\* a finite set of integers as an ascending sequence
SortedSeq(S) ==
    [i \in 1..Cardinality(S) |-> CHOOSE p \in S : Cardinality({q \in S : q < p}) = i - 1]

\* rng.sample(range(n), k), the pool branch of CPython's sample: k draws without
\* replacement, each picked slot refilled from the end of the pool
RECURSIVE SampleLoop(_, _, _, _, _, _)
SampleLoop(pool, s, n, i, k, acc) ==
    IF i = k THEN [result |-> acc, rng |-> s]
    ELSE LET s1 == RandNext(s)
             j == s1 % (n - i)
         IN  SampleLoop([pool EXCEPT ![j + 1] = pool[n - i]], s1, n, i + 1, k,
                        Append(acc, pool[j + 1]))
Sample(s, n, k) == SampleLoop([t \in 1..n |-> t - 1], s, n, 0, k, <<>>)

\* ------------------------------------- SecureQRGenerator._embed_ghost_dots
\* a mask that looks at the first channel only
IsWhitePixelRed(p) == p[1] >= 250

\* np.all(img_array >= 250, axis=2)
IsWhitePixel(p) == p[1] >= 250 /\ p[2] >= 250 /\ p[3] >= 250

\* np.argwhere(white_mask): the white pixels in row-major order, as flat indices
WhiteCoords(img) ==
    LET w == Width(img)
    IN  SortedSeq({y * w + x : <<y, x>> \in
                     {c \in (DOMAIN img) \X (0..(w - 1)) : IsWhitePixel(img[c[1]][c[2]])}})

\* the loop over ghost_positions: one randint per dot, written to all three channels
RECURSIVE EmbedLoop(_, _, _, _, _)
EmbedLoop(img, positions, s, w, coords) ==
    IF positions = <<>> THEN [img |-> img, coords |-> coords, rng |-> s]
    ELSE LET s1 == RandNext(s)
             gray_value == ghost_lo + (s1 % (ghost_hi - ghost_lo + 1))
             y == Head(positions) \div w
             x == Head(positions) % w
         IN  EmbedLoop([img EXCEPT ![y][x] = <<gray_value, gray_value, gray_value>>],
                       Tail(positions), s1, w,
                       Append(coords, [x |-> x, y |-> y, value |-> gray_value]))

\* hashlib.sha256 of the sorted coordinate list: a digest, a function of the list
PatternHash(coords) ==
    SumSeq([i \in 1..Len(coords) |->
              coords[i].x * 7 + coords[i].y * 13 + coords[i].value * 3]) % 9973

\* one generator for the whole process, seeded by the first call only
NewRandomShared(seed, previous) == IF previous = 0 THEN SeedOf(seed) ELSE previous

\* rng = random.Random(seed): a generator of the call's own, whatever ran before
NewRandom(seed, previous) == SeedOf(seed)

\* every white pixel gets a dot
NumDotsAll(n) == n

\* num_dots = min(self.ghost_dot_density, len(white_coords))
NumDots(n) == Min(ghost_dot_density, n)

EmbedGhostDots(img, seed, previous) ==
    LET rng == NewRandom(seed, previous)
        white_coords == WhiteCoords(img)
        n == Len(white_coords)
    IN  IF n = 0
        THEN [img |-> img, rng |-> rng,
              pattern |-> [coordinates |-> <<>>, count |-> 0]]
        ELSE LET num_dots == NumDots(n)
                 sel == Sample(rng, n, num_dots)
                 positions == [i \in 1..num_dots |-> white_coords[sel.result[i] + 1]]
                 done == EmbedLoop(img, positions, sel.rng, Width(img), <<>>)
             IN  [img |-> done.img, rng |-> done.rng,
                  pattern |-> [coordinates |-> done.coords, count |-> num_dots,
                               pattern_hash |-> PatternHash(done.coords)]]

\* ------------------------------ SecureQRGenerator._embed_frequency_watermark
\* rng.randn(8, 8): the signature, in hundredths
Signature(seed) ==
    LET d == Draws(NpSeedOf(seed), SigSize * SigSize)
    IN  [i \in 1..SigSize |-> [j \in 1..SigSize |-> (d[(i - 1) * SigSize + j] % 601) - 300]]

\* the change with watermark_strength 1.0 in place of 0.1
DevTenfold(sig, y, x) ==
    10 * (((sig[(y % SigSize) + 1][(x % SigSize) + 1] + 300) % (2 * WmDev + 1)) - WmDev)

\* idct(dct(gray) + signature * strength * mean|block|) - gray at (y, x): the change the
\* watermark makes to the gray plane, fixed by the signature
Dev(sig, y, x) ==
    ((sig[(y % SigSize) + 1][(x % SigSize) + 1] + 300) % (2 * WmDev + 1)) - WmDev

\* the 8x8 block at (h // 4, w // 4) lies inside the coefficient matrix
BlockFits(h, w) == (h \div 4) + SigSize <= h /\ (w \div 4) + SigSize <= w

\* cv2.addWeighted(img, 0.7, watermarked_rgb, 0.3, 0), saturated to 8 bits
Blend(a, b) == Clip(RoundHalfEven(7 * a + 3 * b, 10), 0, 255)

EmbedFrequencyWatermark(img, seed) ==
    LET signature == Signature(seed)
        h == Height(img)
        w == Width(img)
    IN  IF ~BlockFits(h, w)
        THEN [raised |-> TRUE, img |-> img, signature |-> signature]
        ELSE [raised |-> FALSE, signature |-> signature,
              img |-> [y \in DOMAIN img |-> [x \in DOMAIN img[y] |->
                 LET p == img[y][x]
                     watermarked == Clip(GrayOf(p) + Dev(signature, y, x), 0, 255)
                 IN  <<Blend(p[1], watermarked), Blend(p[2], watermarked),
                       Blend(p[3], watermarked)>>]]]

\* --------------------------------- SecureQRGenerator._add_pixel_fingerprint
\* range(step, n, step)
GridCoords(n) == {k * step : k \in {k \in 1..n : k * step < n}}

FingerprintHash(seed) == <<"sha256", "step5", "noise3", seed>>

\* the noise added in 8 bits, without the widening and the clip: sums wrap around
AddPixelFingerprintWrapping(img, seed) ==
    LET h == Height(img)
        w == Width(img)
        ys == GridCoords(h)
        xs == GridCoords(w)
        nx == Cardinality(xs)
        num_pixels == Cardinality(ys) * nx
        d == Draws(NpSeedOf(seed), 3 * num_pixels)
        noise(idx, c) == (d[3 * idx + c] % (2 * fingerprint_strength + 1))
                         - fingerprint_strength
    IN  [img |-> [y \in DOMAIN img |-> [x \in DOMAIN img[y] |->
                    IF y \in ys /\ x \in xs
                    THEN LET idx == ((y \div step) - 1) * nx + ((x \div step) - 1)
                         IN  [c \in 1..3 |-> (img[y][x][c] + noise(idx, c)) % 256]
                    ELSE img[y][x]]],
         fingerprint_hash |-> FingerprintHash(seed)]

AddPixelFingerprint(img, seed) ==
    LET h == Height(img)
        w == Width(img)
        ys == GridCoords(h)
        xs == GridCoords(w)
        nx == Cardinality(xs)
        num_pixels == Cardinality(ys) * nx
        d == Draws(NpSeedOf(seed), 3 * num_pixels)
        noise(idx, c) == (d[3 * idx + c] % (2 * fingerprint_strength + 1))
                         - fingerprint_strength
    IN  [img |-> [y \in DOMAIN img |-> [x \in DOMAIN img[y] |->
                    IF y \in ys /\ x \in xs
                    THEN LET idx == ((y \div step) - 1) * nx + ((x \div step) - 1)
                         IN  [c \in 1..3 |-> Clip(img[y][x][c] + noise(idx, c), 0, 255)]
                    ELSE img[y][x]]],
         fingerprint_hash |-> FingerprintHash(seed)]

\* ------------------------------------ SecureQRGenerator.generate_secure_qr
\* final_img.save(buffer, format='PNG'): lossless, the bytes stand for the raster
PngEncode(img) == [png |-> img]
\* np.array(Image.open(BytesIO(image_bytes)).convert('RGB'))
PngDecode(bytes) == bytes.png

\* a nested list as numpy and json see it: its shape and its entries
NpArray(shape, data) == [shape |-> shape, data |-> data]
\* watermark_signature.tolist()
ToList(m) == NpArray(<<Len(m), Len(m[1])>>, m)

\* img_array.shape, the channel axis included
ShapeOfArray(img) == <<Height(img), Width(img), 3>>

\* img_array.shape[:2]
ImageSize(img) == <<Height(img), Width(img)>>

SecurityMetadata(ghost_pattern, signature, fingerprint_hash, img) ==
    [ghost_pattern |-> ghost_pattern,
     watermark_signature |-> ToList(signature),
     fingerprint_hash |-> fingerprint_hash,
     image_size |-> ImageSize(img),
     security_version |-> 1]

\* the whole call, for callers that run it in one piece (the API layer)
GenerateSecureQr(data, doc_id, box_size, border, previous) ==
    LET img0 == MakeImage(data, box_size, border)
        g == EmbedGhostDots(img0, doc_id, previous)
        f == EmbedFrequencyWatermark(g.img, doc_id)
        p == AddPixelFingerprint(f.img, doc_id)
    IN  IF f.raised THEN [raised |-> TRUE]
        ELSE [raised |-> FALSE,
              image_bytes |-> PngEncode(p.img),
              metadata |-> SecurityMetadata(g.pattern, f.signature,
                                            p.fingerprint_hash, p.img)]

\* ------------------------------------- CounterfeitDetector._detect_ghost_dots
EmptyDict == <<>>
HasKey(d, k) == k \in DOMAIN d

\* coord['x'], coord['y'], coord['value'] raise KeyError on a missing key;
\* img_array[y, x] raises IndexError past the negative end
CoordRaises(img, coord) ==
    \/ ~HasKey(coord, "x") \/ ~HasKey(coord, "y") \/ ~HasKey(coord, "value")
    \/ /\ ~(coord.y >= Height(img) \/ coord.x >= Width(img))
       /\ ~(InRange(coord.y, Height(img)) /\ InRange(coord.x, Width(img)))

\* the bounds test of the loop: only the upper ends are tested
CoordSkipped(img, coord) == coord.y >= Height(img) \/ coord.x >= Width(img)

\* int(np.mean(pixel))
PixelGray(p) == (p[1] + p[2] + p[3]) \div 3

\* a detection that accepts the recorded value only
CoordDetectedExact(img, coord) ==
    /\ ~CoordSkipped(img, coord)
    /\ PixelGray(PixelAt(img, coord.y, coord.x)) = coord.value

CoordDetected(img, coord) ==
    /\ ~CoordSkipped(img, coord)
    /\ LET pixel_gray == PixelGray(PixelAt(img, coord.y, coord.x))
       IN  /\ 245 <= pixel_gray /\ pixel_gray <= 255
           /\ Abs(pixel_gray - coord.value) <= 5

\* a call either returns a value or raises
Return(v) == [raised |-> FALSE, result |-> v]
Raise(e) == [raised |-> TRUE, error |-> e]

\* a score without the cap at 100
GhostScoreUncapped(num, den) == RoundHalfEven(num, den)

\* round(min(100, detection_rate * 1.05), 2), the rate times 1.05 given as num / den
GhostScore(num, den) == Min(10000, RoundHalfEven(num, den))

DetectGhostDots(img, ghost_pattern) ==
    IF DOMAIN ghost_pattern = {} \/ ~HasKey(ghost_pattern, "coordinates")
    THEN Return([score |-> 0, detected |-> 0, expected |-> 0, status |-> "NO_PATTERN"])
    ELSE IF ~HasKey(ghost_pattern, "count")
    THEN Raise("KeyError")
    ELSE IF ghost_pattern.count = 0
    THEN Return([score |-> 10000, detected |-> 0, expected |-> 0, status |-> "PASS"])
    ELSE LET expected_coords == ghost_pattern.coordinates
             expected_count == ghost_pattern.count
             idx == DOMAIN expected_coords
         IN  IF \E i \in idx : CoordRaises(img, expected_coords[i])
             THEN Raise(IF \E i \in idx :
                             \/ ~HasKey(expected_coords[i], "x")
                             \/ ~HasKey(expected_coords[i], "y")
                             \/ ~HasKey(expected_coords[i], "value")
                        THEN "KeyError" ELSE "IndexError")
             ELSE LET detected == Cardinality({i \in idx :
                                      CoordDetected(img, expected_coords[i])})
                      \* detection_rate * 1.05, as the fraction num / den
                      num == IF expected_count > 0 THEN detected * 10500 ELSE 0
                      den == IF expected_count > 0 THEN expected_count ELSE 1
                  IN  Return([score |-> GhostScore(num, den),
                              detected |-> detected,
                              expected |-> expected_count,
                              detection_rate |->
                                  IF expected_count > 0
                                  THEN RoundHalfEven(detected * 10000, expected_count)
                                  ELSE 0,
                              status |-> IF num >= 7000 * den THEN "PASS" ELSE "FAIL"])

\* ------------------------------ CounterfeitDetector._verify_frequency_watermark
EmptyList == NpArray(<<0>>, <<>>)
ArraySize(a) == IF Len(a.shape) = 1 THEN a.shape[1] ELSE a.shape[1] * a.shape[2]

\* dct_coeffs[mid_h:mid_h+sig_h, mid_w:mid_w+sig_w].shape: slices stop at the edge
SliceLen(n, from, len) == Max(0, Min(n, from + len) - from)

\* the Pearson correlation of the stored and the extracted block, in ten-thousandths,
\* or NaN (a constant block): a result of the transform, given to the call
Correlations == {[nan |-> TRUE, c |-> 0]} \cup
                {[nan |-> FALSE, c |-> v] : v \in {-5000, 0, 4000, 10000}}

\* a score that takes an anti-correlated block as a match
FrequencyScoreAbs(correlation) == Min(10000, Abs(correlation))

\* score = max(0, min(100, correlation * 100))
FrequencyScore(correlation) == Max(0, Min(10000, correlation))

\* a transform of the candidate as it came
TransformShapeAsIs(img, has_size, expected_size) == <<Height(img), Width(img)>>

\* the shape of the gray plane that is transformed: the candidate's, or expected_size
\* when one is given and differs (cv2.resize)
TransformShape(img, has_size, expected_size) ==
    IF has_size /\ <<Height(img), Width(img)>> # expected_size
    THEN expected_size
    ELSE <<Height(img), Width(img)>>

VerifyFrequencyWatermark(img, original_signature, has_size, expected_size, corr) ==
    IF ArraySize(original_signature) = 0
    THEN [score |-> 0, correlation |-> 0, status |-> "NO_SIGNATURE"]
    ELSE LET resize == has_size /\ <<Height(img), Width(img)>> # expected_size
             shape == TransformShape(img, has_size, expected_size)
             h == shape[1]
             w == shape[2]
         IN  IF Height(img) = 0 \/ Width(img) = 0
             THEN [score |-> 0, correlation |-> 0, status |-> "ERROR"]
             ELSE IF resize /\ (h <= 0 \/ w <= 0)
             THEN [score |-> 0, correlation |-> 0, status |-> "ERROR"]
             ELSE IF Len(original_signature.shape) # 2
             THEN [score |-> 0, correlation |-> 0, status |-> "ERROR"]
             ELSE LET sig_h == original_signature.shape[1]
                      sig_w == original_signature.shape[2]
                      extracted == <<SliceLen(h, h \div 4, sig_h), SliceLen(w, w \div 4, sig_w)>>
                  IN  IF extracted # original_signature.shape
                      THEN [score |-> 0, correlation |-> 0, status |-> "SIZE_MISMATCH"]
                      ELSE LET correlation == IF corr.nan THEN 0 ELSE corr.c
                               score == FrequencyScore(correlation)
                           IN  [score |-> score, correlation |-> correlation,
                                status |-> IF score >= 5000 THEN "PASS" ELSE "FAIL"]

\* ------------------------------- CounterfeitDetector._analyze_pixel_fingerprint
\* every channel value of the grid pixels, flattened
GridValues(img) ==
    LET ys == SortedSeq(GridCoords(Height(img)))
        xs == SortedSeq(GridCoords(Width(img)))
        nx == Len(xs)
    IN  [k \in 1..(3 * Len(ys) * nx) |->
            LET px == (k - 1) \div 3
            IN  img[ys[(px \div nx) + 1]][xs[(px % nx) + 1]][((k - 1) % 3) + 1]]

\* np.var(values) as the fraction num / den
VarianceOf(values) ==
    LET n == Len(values)
        s == SumSeq(values)
        q == SumSeq([i \in 1..n |-> values[i] * values[i]])
    IN  [num |-> n * q - s * s, den |-> n * n]

\* the integrity with the expected range taken without its ends
IntegrityOpenRange(v) ==
    IF 50 * v.den < v.num /\ v.num < 200 * v.den
    THEN Min(10000, RoundHalfEven(9000 * v.den + 5 * v.num, v.den))
    ELSE IF v.num < 50 * v.den
    THEN RoundHalfEven(120 * v.num, v.den)
    ELSE 7000

\* the integrity of a grid variance v = num / den, times 10000
Integrity(v) ==
    IF 50 * v.den <= v.num /\ v.num <= 200 * v.den
    THEN Min(10000, RoundHalfEven(9000 * v.den + 5 * v.num, v.den))
    ELSE IF v.num < 50 * v.den
    THEN RoundHalfEven(120 * v.num, v.den)
    ELSE 7000

\* integrity * 100 >= t / 100, on the integrity before it is rounded
ScoreAtLeast(v, t) ==
    IF 50 * v.den <= v.num /\ v.num <= 200 * v.den
    THEN 10000 >= t /\ 9000 * v.den + 5 * v.num >= t * v.den
    ELSE IF v.num < 50 * v.den
    THEN 120 * v.num >= t * v.den
    ELSE 7000 >= t

\* the try block: the grid pixels, their variance, the integrity and the score
AnalyzeGrid(img) ==
    LET pixel_values == GridValues(img)
    IN  IF pixel_values = <<>>
        THEN [score |-> 0, integrity |-> 0, status |-> "NO_PIXELS"]
        ELSE LET v == VarianceOf(pixel_values)
                 integrity == Integrity(v)
             IN  [score |-> integrity, integrity |-> integrity,
                  variance |-> 100 * (v.num \div v.den)
                               + RoundHalfEven(100 * (v.num % v.den), v.den),
                  status |-> IF ScoreAtLeast(v, 6000) THEN "PASS" ELSE "FAIL"]

\* an analysis that does not look at the stored hash
AnalyzePixelFingerprintUnguarded(img, original_hash) == AnalyzeGrid(img)

\* an analysis that accepts the hash of one document only
AnalyzePixelFingerprintCompared(img, original_hash) ==
    IF original_hash = <<>>
    THEN [score |-> 0, integrity |-> 0, status |-> "NO_FINGERPRINT"]
    ELSE IF original_hash # FingerprintHash("d1")
    THEN [score |-> 0, integrity |-> 0, status |-> "FAIL"]
    ELSE AnalyzeGrid(img)

AnalyzePixelFingerprint(img, original_hash) ==
    IF original_hash = <<>>
    THEN [score |-> 0, integrity |-> 0, status |-> "NO_FINGERPRINT"]
    ELSE AnalyzeGrid(img)

\* -------------------------------------- CounterfeitDetector._analyze_metadata
\* cv2.Laplacian(gray, CV_64F): the 4-neighbour kernel, borders reflected (REFLECT_101)
Reflect(i, n) == IF n = 1 THEN 0 ELSE IF i < 0 THEN -i ELSE IF i >= n THEN 2 * n - 2 - i ELSE i

LaplacianValues(img) ==
    LET h == Height(img)
        w == Width(img)
        g(y, x) == GrayOf(img[Reflect(y, h)][Reflect(x, w)])
    IN  [k \in 1..(h * w) |->
            LET y == (k - 1) \div w
                x == (k - 1) % w
            IN  g(y - 1, x) + g(y + 1, x) + g(y, x - 1) + g(y, x + 1) - 4 * g(y, x)]

\* np.var of the values without leaving 32 bits: with s = |sum|, q = sum of squares,
\* s*s/n = f + rr/n, and n*var = q - f - rr/n
LaplacianStats(img) ==
    LET values == LaplacianValues(img)
        n == Len(values)
        s == Abs(SumSeq(values))
        q == SumSeq([i \in 1..n |-> values[i] * values[i]])
        sq == s \div n
        sr == s % n
    IN  [n |-> n, q |-> q,
         f |-> s * sq + sq * sr + ((sr * sr) \div n),
         rr |-> (sr * sr) % n]

\* laplacian_var > t, exactly
SharperThan(st, t) == st.q - t * st.n > st.f

\* round(float(laplacian_var), 2), in hundredths
Sharpness(st) ==
    LET d == st.q - st.f
    IN  100 * (d \div st.n) + RoundHalfEven(100 * ((d % st.n) * st.n - st.rr), st.n * st.n)

AnalyzeMetadata(img) ==
    IF Height(img) = 0 \/ Width(img) = 0
    THEN [score |-> 5000, status |-> "ERROR"]
    ELSE LET st == LaplacianStats(img)
             score == IF SharperThan(st, 100) THEN 9000
                      ELSE IF SharperThan(st, 50) THEN 6000 ELSE 3000
         IN  [score |-> score, sharpness |-> Sharpness(st),
              has_camera_characteristics |-> SharperThan(st, 100),
              status |-> IF score >= 5000 THEN "PASS" ELSE "FAIL"]

\* ------------------------------- CounterfeitDetector.verify_qr_authenticity
\* dict.get(key, default)
Get(d, k, default) == IF HasKey(d, k) THEN d[k] ELSE default

\* the four channels weighted alike
WeightedScoreEven(ghost, freq, fingerprint, metadata) ==
    ghost.score * 25 + freq.score * 25 + fingerprint.score * 25 + metadata.score * 25

\* the weighted sum of the four channel scores, in ten-thousandths
WeightedScore(ghost, freq, fingerprint, metadata) ==
    ghost.score * w_ghost_dots + freq.score * w_frequency
    + fingerprint.score * w_fingerprint + metadata.score * w_metadata

\* a verdict without the middle band
VerdictTwoWay(authenticity_score) ==
    IF authenticity_score >= authenticity_threshold * 10000 THEN "AUTHENTIC"
    ELSE "COUNTERFEIT"

Verdict(authenticity_score) ==
    IF authenticity_score >= authenticity_threshold * 10000 THEN "AUTHENTIC"
    ELSE IF authenticity_score >= suspicious_threshold * 10000 THEN "SUSPICIOUS"
    ELSE "COUNTERFEIT"

Warnings(authenticity_score) ==
    IF authenticity_score >= authenticity_threshold * 10000 THEN <<>>
    ELSE IF authenticity_score >= suspicious_threshold * 10000
    THEN <<"Authenticity score is below recommended threshold">>
    ELSE <<"Multiple security features failed verification">>

\* the composite score, the verdict and the report, from the four channel results
Report(ghost, freq, fingerprint, metadata) ==
    LET authenticity_score == WeightedScore(ghost, freq, fingerprint, metadata)
    IN  [verdict |-> Verdict(authenticity_score),
         authenticity_score |-> RoundHalfEven(authenticity_score, 100),
         details |-> [ghost_dots |-> ghost,
                      frequency_watermark |-> freq,
                      pixel_fingerprint |-> fingerprint,
                      metadata |-> metadata],
         warnings |-> Warnings(authenticity_score)]

\* a verification that gives up when a channel reports an error
VerifyQrAuthenticityAborting(scanned_image, security_metadata, corr) ==
    LET ghost == DetectGhostDots(scanned_image,
                                 Get(security_metadata, "ghost_pattern", EmptyDict))
    IN  IF ghost.raised THEN ghost
        ELSE LET freq == VerifyFrequencyWatermark(
                             scanned_image,
                             Get(security_metadata, "watermark_signature", EmptyList),
                             HasKey(security_metadata, "image_size"),
                             Get(security_metadata, "image_size", <<0, 0>>),
                             corr)
                 fingerprint == AnalyzePixelFingerprint(
                                    scanned_image,
                                    Get(security_metadata, "fingerprint_hash", <<>>))
                 metadata == AnalyzeMetadata(scanned_image)
             IN  IF freq.status = "ERROR" \/ metadata.status = "ERROR"
                 THEN Raise("Exception")
                 ELSE Return(Report(ghost.result, freq, fingerprint, metadata))

VerifyQrAuthenticity(scanned_image, security_metadata, corr) ==
    LET ghost == DetectGhostDots(scanned_image,
                                 Get(security_metadata, "ghost_pattern", EmptyDict))
    IN  IF ghost.raised THEN ghost
        ELSE LET freq == VerifyFrequencyWatermark(
                             scanned_image,
                             Get(security_metadata, "watermark_signature", EmptyList),
                             HasKey(security_metadata, "image_size"),
                             Get(security_metadata, "image_size", <<0, 0>>),
                             corr)
                 fingerprint == AnalyzePixelFingerprint(
                                    scanned_image,
                                    Get(security_metadata, "fingerprint_hash", <<>>))
                 metadata == AnalyzeMetadata(scanned_image)
             IN  Return(Report(ghost.result, freq, fingerprint, metadata))

\* verify_qr_code_bytes(image_bytes, security_metadata)
VerifyQrCodeBytes(image_bytes, security_metadata, corr) ==
    VerifyQrAuthenticity(PngDecode(image_bytes), security_metadata, corr)

\* ------------------------------------------------- candidates and records
\* simulate_screenshot: (img_array // 5) * 5, saved as PNG
SimulateScreenshot(image_bytes) ==
    LET img == PngDecode(image_bytes)
    IN  PngEncode([y \in DOMAIN img |-> [x \in DOMAIN img[y] |->
                     [c \in 1..3 |-> (img[y][x][c] \div 5) * 5]]])

\* a sheet of white paper of the same size
BlankImage(image_bytes) ==
    LET img == PngDecode(image_bytes)
    IN  PngEncode([y \in DOMAIN img |-> [x \in DOMAIN img[y] |-> White]])

\* the top-left corner of the image, six pixels short on both sides
CroppedImage(image_bytes) ==
    LET img == PngDecode(image_bytes)
    IN  PngEncode([y \in 0..(Height(img) - 7) |-> [x \in 0..(Width(img) - 7) |-> img[y][x]]])

\* the image at twice the size, every pixel doubled
EnlargedImage(image_bytes) ==
    LET img == PngDecode(image_bytes)
    IN  PngEncode([y \in 0..(2 * Height(img) - 1) |->
                     [x \in 0..(2 * Width(img) - 1) |-> img[y \div 2][x \div 2]]])

CandidateKinds == {"original", "screenshot", "blank", "cropped", "enlarged"}

Candidate(image_bytes, kind) ==
    CASE kind = "original" -> image_bytes
      [] kind = "screenshot" -> SimulateScreenshot(image_bytes)
      [] kind = "blank" -> BlankImage(image_bytes)
      [] kind = "cropped" -> CroppedImage(image_bytes)
      [] kind = "enlarged" -> EnlargedImage(image_bytes)

Without(d, k) == [f \in (DOMAIN d) \ {k} |-> d[f]]

\* the first recorded coordinate replaced by c
WithFirstCoord(md, c) ==
    [md EXCEPT !.ghost_pattern.coordinates =
        [i \in DOMAIN @ |-> IF i = 1 THEN c ELSE @[i]]]

\* records a caller may present: the one generate returned, and damaged ones
RecordKinds == {"stored", "no_image_size", "no_count", "no_value", "far_outside",
                "negative", "negative_far", "flat_signature", "no_ghost",
                "no_signature", "no_fingerprint", "low_count", "absent_ghost",
                "bare", "zero_count"}

Record(md, kind) ==
    LET c1 == md.ghost_pattern.coordinates[1]
        h == md.image_size[1]
        w == md.image_size[2]
    IN  CASE kind = "stored" -> md
          [] kind = "no_image_size" -> Without(md, "image_size")
          [] kind = "no_count" ->
                [md EXCEPT !.ghost_pattern = Without(md.ghost_pattern, "count")]
          [] kind = "no_value" -> WithFirstCoord(md, Without(c1, "value"))
          [] kind = "far_outside" ->
                WithFirstCoord(md, [c1 EXCEPT !.x = w + 1000, !.y = h + 1000])
          [] kind = "negative" -> WithFirstCoord(md, [c1 EXCEPT !.x = -1])
          [] kind = "negative_far" -> WithFirstCoord(md, [c1 EXCEPT !.x = -(w + 1)])
          [] kind = "flat_signature" ->
                [md EXCEPT !.watermark_signature =
                    NpArray(<<SigSize>>, md.watermark_signature.data[1])]
          [] kind = "no_ghost" -> [md EXCEPT !.ghost_pattern = EmptyDict]
          [] kind = "no_signature" -> [md EXCEPT !.watermark_signature = EmptyList]
          [] kind = "no_fingerprint" -> [md EXCEPT !.fingerprint_hash = <<>>]
          [] kind = "low_count" -> [md EXCEPT !.ghost_pattern.count = 1]
          [] kind = "absent_ghost" -> Without(md, "ghost_pattern")
          [] kind = "bare" -> EmptyDict
          [] kind = "zero_count" ->
                [md EXCEPT !.ghost_pattern = [coordinates |-> <<>>, count |-> 0]]

\* ===================================================================== state
VARIABLES
    gen,        \* the generate call in progress: its arguments, raster and results so far
    rng,        \* the state of the random generator most recently used
    first,      \* the first generate call that returned: its arguments and its result
    ver,        \* the last verification: what was presented and what came back
    documents,  \* the documents table, by unique_id
    qr_codes,   \* the files qr_codes/qr_<unique_id>.png
    returned,   \* what generate returned when the document was uploaded
    secure,     \* /verify-secure requests waiting for their upload to be read
    resp,       \* the last response of the API
    scored,     \* four channel scores and the report composed from them
    calls,      \* generate and verify calls in flight side by side, by caller
    unit        \* one method applied to one input: the input and what it returned

core_vars == <<gen, rng, first, ver>>
api_vars == <<documents, qr_codes, returned, secure, resp>>
vars == <<gen, rng, first, ver, documents, qr_codes, returned, secure, resp, scored,
         calls, unit>>

BoxSizes == {2}
Borders == {1}

None == [none |-> TRUE]
Idle == [pc |-> "idle"]

\* the fingerprint before the watermark
StageOrderSwapped == <<"ghost_dots", "pixel_fingerprint", "frequency_watermark">>

\* the order of steps 2 to 4 of generate_secure_qr
StageOrder == <<"ghost_dots", "frequency_watermark", "pixel_fingerprint">>

Stage(g) == IF g.k <= Len(StageOrder) THEN StageOrder[g.k] ELSE "finish"

\* what the raster already carries when a step starts
Carried(g) == [ghost_dots |-> g.ghost_pattern # None,
               frequency_watermark |-> g.signature # None,
               pixel_fingerprint |-> g.fingerprint_hash # None]

Logged(g, name) == Append(g.steps, [name |-> name, carried |-> Carried(g)])

\* two callers at once, each with a document of its own
Callers == {"c1", "c2"}
DocOf(c) == IF c = "c1" THEN "d1" ELSE "d2"

Users == {"u1", "u2"}
Requests == {"r1", "r2"}
ScanLimits == 0..MaxScanLimit
NoRow == [row |-> FALSE]

Init ==
    /\ gen = Idle
    /\ rng = 0
    /\ first = None
    /\ ver = None
    /\ documents = [d \in DocIds |-> NoRow]
    /\ qr_codes = [d \in DocIds |-> None]
    /\ returned = [d \in DocIds |-> None]
    /\ secure = [r \in Requests |-> Idle]
    /\ resp = None
    /\ scored = None
    /\ calls = [c \in Callers |-> Idle]
    /\ unit = None

\* steps 1: the base symbol as an RGB raster
GenStart(data, doc_id, box_size, border) ==
    /\ gen.pc = "idle"
    /\ gen' = [pc |-> "embedding", k |-> 1,
               args |-> [data |-> data, doc_id |-> doc_id,
                         box_size |-> box_size, border |-> border],
               img_array |-> MakeImage(data, box_size, border),
               ghost_pattern |-> None, signature |-> None, fingerprint_hash |-> None,
               steps |-> <<>>, out |-> None]
    /\ ver' = None
    /\ UNCHANGED <<rng, first>>
    /\ UNCHANGED <<api_vars, scored, calls, unit>>

\* step 2: ghost_pattern = self._embed_ghost_dots(img_array, doc_id)
GenGhostDots ==
    /\ gen.pc = "embedding" /\ Stage(gen) = "ghost_dots"
    /\ \E r \in {EmbedGhostDots(gen.img_array, gen.args.doc_id, rng)} :
           /\ gen' = [gen EXCEPT !.img_array = r.img, !.ghost_pattern = r.pattern,
                                 !.k = @ + 1, !.steps = Logged(gen, "ghost_dots")]
           /\ rng' = r.rng
    /\ UNCHANGED <<first, ver>>
    /\ UNCHANGED <<api_vars, scored, calls, unit>>

\* step 3: watermark_signature = self._embed_frequency_watermark(img_array, doc_id)
GenFrequencyWatermark ==
    /\ gen.pc = "embedding" /\ Stage(gen) = "frequency_watermark"
    /\ \E r \in {EmbedFrequencyWatermark(gen.img_array, gen.args.doc_id)} :
           gen' = IF r.raised THEN [gen EXCEPT !.pc = "raised"]
                  ELSE [gen EXCEPT !.img_array = r.img, !.signature = r.signature,
                                   !.k = @ + 1,
                                   !.steps = Logged(gen, "frequency_watermark")]
    /\ UNCHANGED <<rng, first, ver>>
    /\ UNCHANGED <<api_vars, scored, calls, unit>>

\* step 4: fingerprint_hash = self._add_pixel_fingerprint(img_array, doc_id)
GenPixelFingerprint ==
    /\ gen.pc = "embedding" /\ Stage(gen) = "pixel_fingerprint"
    /\ \E r \in {AddPixelFingerprint(gen.img_array, gen.args.doc_id)} :
           gen' = [gen EXCEPT !.img_array = r.img,
                              !.fingerprint_hash = r.fingerprint_hash,
                              !.k = @ + 1, !.steps = Logged(gen, "pixel_fingerprint")]
    /\ UNCHANGED <<rng, first, ver>>
    /\ UNCHANGED <<api_vars, scored, calls, unit>>

\* the PNG bytes and the metadata record, returned to the caller
GenFinish ==
    /\ gen.pc = "embedding" /\ Stage(gen) = "finish"
    /\ \E out \in {[image_bytes |-> PngEncode(gen.img_array),
                     metadata |-> SecurityMetadata(gen.ghost_pattern, gen.signature,
                                                   gen.fingerprint_hash, gen.img_array)]} :
           /\ gen' = [gen EXCEPT !.pc = "done", !.out = out]
           /\ first' = IF first = None
                       THEN [args |-> gen.args, out |-> out, others |-> 0]
                       ELSE IF first.args # gen.args
                       THEN [first EXCEPT !.others = 1]
                       ELSE first
    /\ UNCHANGED <<rng, ver>>
    /\ UNCHANGED <<api_vars, scored, calls, unit>>

\* the caller drops the result; the next call may start
GenReturn ==
    /\ gen.pc \in {"done", "raised"}
    /\ gen' = Idle
    /\ ver' = None
    /\ UNCHANGED <<rng, first>>
    /\ UNCHANGED <<api_vars, scored, calls, unit>>

\* detector.verify_qr_authenticity on a candidate made from the image just generated,
\* against a record made from the metadata just generated
Verify(candidate, kind, corr) ==
    /\ gen.pc = "done" /\ ver = None
    /\ candidate = "original" \/ kind \in {"stored", "no_image_size"}
    /\ \E image_bytes \in {Candidate(gen.out.image_bytes, candidate)},
          record \in {Record(gen.out.metadata, kind)} :
           ver' = [candidate |-> candidate, kind |-> kind, own |-> TRUE,
                   image_bytes |-> image_bytes, record |-> record,
                   result |-> VerifyQrCodeBytes(image_bytes, record, corr)]
    /\ UNCHANGED <<gen, rng, first>>
    /\ UNCHANGED <<api_vars, scored, calls, unit>>

\* the image just generated against the record of an earlier call
VerifyForeign(corr) ==
    /\ gen.pc = "done" /\ ver = None
    /\ first # None /\ first.args # gen.args
    /\ ver' = [candidate |-> "original", kind |-> "stored", own |-> FALSE,
               image_bytes |-> gen.out.image_bytes, record |-> first.out.metadata,
               result |-> VerifyQrCodeBytes(gen.out.image_bytes, first.out.metadata, corr)]
    /\ UNCHANGED <<gen, rng, first>>
    /\ UNCHANGED <<api_vars, scored, calls, unit>>

\* the caller drops the report; the next verification may start
VerifyReturn ==
    /\ ver # None
    /\ ver' = None
    /\ UNCHANGED <<gen, rng, first>>
    /\ UNCHANGED <<api_vars, scored, calls, unit>>

Next ==
    \/ \E data \in Datas, doc_id \in DocIds, box_size \in BoxSizes, border \in Borders :
          GenStart(data, doc_id, box_size, border)
    \/ GenGhostDots
    \/ GenFrequencyWatermark
    \/ GenPixelFingerprint
    \/ GenFinish
    \/ GenReturn
    \/ \E candidate \in CandidateKinds, kind \in RecordKinds, corr \in Correlations :
          Verify(candidate, kind, corr)
    \/ \E corr \in Correlations : VerifyForeign(corr)
    \/ VerifyReturn

Spec == Init /\ [][Next]_vars

\* ------------------------------------------------ the composition on its own
\* channel scores in hundredths, with the two thresholds and their neighbours
ChannelScores == {0, 3999, 4000, 6999, 7000, 10000}

\* the weighting and the verdict of verify_qr_authenticity, given the four results
Compose(ghost, freq, fingerprint, metadata) ==
    /\ scored = None
    /\ scored' = [scores |-> <<ghost, freq, fingerprint, metadata>>,
                  report |-> Report([score |-> ghost], [score |-> freq],
                                    [score |-> fingerprint], [score |-> metadata])]
    /\ UNCHANGED <<core_vars, api_vars, calls, unit>>

\* the caller drops the report
ComposeReturn ==
    /\ scored # None
    /\ scored' = None
    /\ UNCHANGED <<core_vars, api_vars, calls, unit>>

NextVerdict ==
    \/ \E ghost \in ChannelScores, freq \in ChannelScores,
          fingerprint \in ChannelScores, metadata \in ChannelScores :
          Compose(ghost, freq, fingerprint, metadata)
    \/ ComposeReturn

SpecVerdict == Init /\ [][NextVerdict]_vars

\* ================================================================ API layer
\* verify_url = f"{base_url}/verify/{unique_id}", the payload of the QR code
VerifyUrl(unique_id) == IF unique_id = "d1" THEN "urlA" ELSE "urlB"

\* json.dumps / json.loads of a dict or a list of numbers: the text stands for the
\* value, keys and entries in order; tuples would come back as lists
JsonDumps(v) == [json |-> v]
JsonLoads(t) == t.json

\* the columns INSERTed by upload_pdf
DocumentRow(user_id, filename, scan_limit, security_metadata) ==
    [row |-> TRUE, user_id |-> user_id, filename |-> filename, pdf_data |-> filename,
     scan_limit |-> scan_limit, scan_count |-> 0,
     ghost_pattern |-> JsonDumps(security_metadata.ghost_pattern),
     frequency_signature |-> JsonDumps(security_metadata.watermark_signature),
     fingerprint_hash |-> security_metadata.fingerprint_hash,
     security_version |-> security_metadata.security_version]

\* "Parse security metadata": the record the handlers give the detector
ParseSecurityMetadata(row) ==
    [ghost_pattern |-> IF row.ghost_pattern # None
                       THEN JsonLoads(row.ghost_pattern) ELSE EmptyDict,
     watermark_signature |-> IF row.frequency_signature # None
                             THEN JsonLoads(row.frequency_signature) ELSE EmptyList,
     fingerprint_hash |-> IF row.fingerprint_hash # <<>>
                          THEN row.fingerprint_hash ELSE <<>>,
     security_version |-> IF row.security_version # 0
                          THEN row.security_version ELSE 1]

\* a limit check that lets the request at the limit through
LimitReachedStrict(scan_count, scan_limit) == scan_count > scan_limit

\* "Check scan limit"
LimitReached(scan_count, scan_limit) == scan_count >= scan_limit

\* access for every verdict but COUNTERFEIT
GrantsUnlessCounterfeit(verdict) == verdict # "COUNTERFEIT"

\* "Only allow access if AUTHENTIC"
GrantsAccess(verdict) == verdict = "AUTHENTIC"

\* UPDATE documents SET scan_count = scan_count + 1 WHERE id = ?
IncrementScanCount(table, unique_id) ==
    [table EXCEPT ![unique_id].scan_count = @ + 1]

Error(endpoint, unique_id, status) ==
    [endpoint |-> endpoint, unique_id |-> unique_id, status |-> status]

\* POST /upload-pdf
UploadPdf(user_id, unique_id, filename, scan_limit, box_size, border) ==
    /\ documents[unique_id] = NoRow
    /\ IF filename # "a.pdf"
       THEN /\ resp' = Error("upload-pdf", unique_id, 400)
            /\ UNCHANGED <<documents, qr_codes, returned>>
       ELSE \E g \in {GenerateSecureQr(VerifyUrl(unique_id), unique_id, box_size, border, 0)} :
                /\ ~g.raised
                /\ documents' = [documents EXCEPT ![unique_id] =
                                   DocumentRow(user_id, filename, scan_limit, g.metadata)]
                /\ qr_codes' = [qr_codes EXCEPT ![unique_id] = g.image_bytes]
                /\ returned' = [returned EXCEPT ![unique_id] = g.metadata]
                /\ resp' = [endpoint |-> "upload-pdf", unique_id |-> unique_id,
                            status |-> 200, scan_limit |-> scan_limit, scan_count |-> 0]
    /\ UNCHANGED secure
    /\ UNCHANGED <<core_vars, scored, calls, unit>>

\* GET /verify/{unique_id} without the ownership test
VerifyAndGetPdfUnowned(user_id, unique_id) ==
    LET row == documents[unique_id]
    IN  /\ IF row = NoRow
           THEN /\ resp' = Error("verify", unique_id, 404)
                /\ UNCHANGED documents
           ELSE IF LimitReached(row.scan_count, row.scan_limit)
           THEN /\ resp' = [endpoint |-> "verify", unique_id |-> unique_id,
                            status |-> 410, count_before |-> row.scan_count,
                            scan_limit |-> row.scan_limit]
                /\ UNCHANGED documents
           ELSE /\ documents' = IncrementScanCount(documents, unique_id)
                /\ resp' = [endpoint |-> "verify", unique_id |-> unique_id,
                            status |-> 200, content |-> row.pdf_data,
                            count_before |-> row.scan_count,
                            x_scan_count |-> row.scan_count + 1,
                            x_scan_limit |-> row.scan_limit]
        /\ UNCHANGED <<qr_codes, returned, secure>>
        /\ UNCHANGED <<core_vars, scored, calls, unit>>

\* GET /verify/{unique_id}: no await between the SELECT and the UPDATE
VerifyAndGetPdf(user_id, unique_id) ==
    LET row == documents[unique_id]
    IN  /\ IF row = NoRow
           THEN /\ resp' = Error("verify", unique_id, 404)
                /\ UNCHANGED documents
           ELSE IF row.user_id # user_id
           THEN /\ resp' = Error("verify", unique_id, 403)
                /\ UNCHANGED documents
           ELSE IF LimitReached(row.scan_count, row.scan_limit)
           THEN /\ resp' = [endpoint |-> "verify", unique_id |-> unique_id,
                            status |-> 410, count_before |-> row.scan_count,
                            scan_limit |-> row.scan_limit]
                /\ UNCHANGED documents
           ELSE /\ documents' = IncrementScanCount(documents, unique_id)
                /\ resp' = [endpoint |-> "verify", unique_id |-> unique_id,
                            status |-> 200, content |-> row.pdf_data,
                            count_before |-> row.scan_count,
                            x_scan_count |-> row.scan_count + 1,
                            x_scan_limit |-> row.scan_limit]
        /\ UNCHANGED <<qr_codes, returned, secure>>
        /\ UNCHANGED <<core_vars, scored, calls, unit>>

\* the images a client may upload for a document: its QR file, a screenshot of it,
\* a blank sheet
UploadKinds == {"original", "screenshot", "blank"}

\* POST /verify-secure/{unique_id}, up to "image_bytes = await file.read()"
SecureBegin(r, user_id, unique_id) ==
    LET row == documents[unique_id]
    IN  /\ secure[r] = Idle
        /\ IF row = NoRow
           THEN /\ resp' = Error("verify-secure", unique_id, 404)
                /\ UNCHANGED secure
           ELSE IF row.user_id # user_id
           THEN /\ resp' = Error("verify-secure", unique_id, 403)
                /\ UNCHANGED secure
           ELSE IF LimitReached(row.scan_count, row.scan_limit)
           THEN /\ resp' = Error("verify-secure", unique_id, 410)
                /\ UNCHANGED secure
           ELSE /\ secure' = [secure EXCEPT ![r] =
                                [pc |-> "reading", unique_id |-> unique_id,
                                 pdf_data |-> row.pdf_data, scan_limit |-> row.scan_limit,
                                 scan_count |-> row.scan_count,
                                 security_metadata |-> ParseSecurityMetadata(row)]]
                /\ UNCHANGED resp
        /\ UNCHANGED <<documents, qr_codes, returned>>
        /\ UNCHANGED <<core_vars, scored, calls, unit>>

\* POST /verify-secure/{unique_id}, from the upload read to the response
SecureFinish(r, upload, corr) ==
    /\ secure[r] # Idle
    /\ \E q \in {secure[r]} :
       \E v \in {VerifyQrCodeBytes(Candidate(qr_codes[q.unique_id], upload),
                                   q.security_metadata, corr)} :
           IF v.raised
           THEN /\ resp' = Error("verify-secure", q.unique_id, 500)
                /\ UNCHANGED documents
           ELSE IF ~GrantsAccess(v.result.verdict)
           THEN /\ resp' = [endpoint |-> "verify-secure", unique_id |-> q.unique_id,
                            status |-> 200, success |-> FALSE,
                            verdict |-> v.result.verdict,
                            count_before |-> documents[q.unique_id].scan_count,
                            count_after |-> documents[q.unique_id].scan_count]
                /\ UNCHANGED documents
           ELSE /\ documents' = IncrementScanCount(documents, q.unique_id)
                /\ resp' = [endpoint |-> "verify-secure", unique_id |-> q.unique_id,
                            status |-> 200, success |-> TRUE,
                            verdict |-> v.result.verdict,
                            pdf_data |-> q.pdf_data,
                            scan_count |-> q.scan_count + 1,
                            scan_limit |-> q.scan_limit,
                            count_before |-> documents[q.unique_id].scan_count,
                            count_after |-> documents'[q.unique_id].scan_count]
    /\ secure' = [secure EXCEPT ![r] = Idle]
    /\ UNCHANGED <<qr_codes, returned>>
    /\ UNCHANGED <<core_vars, scored, calls, unit>>

\* POST /verify-authenticity/{unique_id}: reads only
VerifyAuthenticityEndpoint(user_id, unique_id, filename, upload, corr) ==
    LET row == documents[unique_id]
    IN  /\ IF filename # "scan.png"
           THEN resp' = Error("verify-authenticity", unique_id, 400)
           ELSE IF row = NoRow
           THEN resp' = Error("verify-authenticity", unique_id, 404)
           ELSE IF row.user_id # user_id
           THEN resp' = Error("verify-authenticity", unique_id, 403)
           ELSE \E security_metadata \in {ParseSecurityMetadata(row)} :
                \E v \in {VerifyQrCodeBytes(Candidate(qr_codes[unique_id], upload),
                                            security_metadata, corr)} :
                    IF v.raised
                    THEN resp' = Error("verify-authenticity", unique_id, 500)
                    ELSE resp' = [endpoint |-> "verify-authenticity",
                                  unique_id |-> unique_id, status |-> 200,
                                  verdict |-> v.result.verdict,
                                  authenticity_score |-> v.result.authenticity_score,
                                  security_metadata |-> security_metadata]
        /\ UNCHANGED <<documents, qr_codes, returned, secure>>
        /\ UNCHANGED <<core_vars, scored, calls, unit>>

ApiCorrelations == {c \in Correlations : ~c.nan /\ c.c = 10000}

\* the tokens uuid4 hands out in a run
Tokens == {"d1"}

NextApi ==
    \/ \E user_id \in Users, unique_id \in Tokens, filename \in {"a.pdf", "a.txt"},
          scan_limit \in ScanLimits, box_size \in BoxSizes, border \in Borders :
          UploadPdf(user_id, unique_id, filename, scan_limit, box_size, border)
    \/ \E user_id \in Users, unique_id \in Tokens : VerifyAndGetPdf(user_id, unique_id)
    \/ \E r \in Requests, user_id \in Users, unique_id \in Tokens :
          SecureBegin(r, user_id, unique_id)
    \/ \E r \in Requests, upload \in UploadKinds, corr \in ApiCorrelations :
          SecureFinish(r, upload, corr)
    \/ \E user_id \in Users, unique_id \in Tokens, filename \in {"scan.png", "scan.gif"},
          upload \in UploadKinds, corr \in ApiCorrelations :
          VerifyAuthenticityEndpoint(user_id, unique_id, filename, upload, corr)

SpecApi == Init /\ [][NextApi]_vars

\* ------------------------------------------------- calls side by side
\* generate_secure_qr_code by caller c, up to the base raster
CallStart(c, data, box_size, border) ==
    /\ calls[c] = Idle
    /\ calls' = [calls EXCEPT ![c] =
                   [pc |-> "embedding", k |-> 1,
                    args |-> [data |-> data, doc_id |-> DocOf(c),
                              box_size |-> box_size, border |-> border],
                    img_array |-> MakeImage(data, box_size, border),
                    ghost_pattern |-> None, signature |-> None,
                    fingerprint_hash |-> None, steps |-> <<>>, out |-> None]]
    /\ UNCHANGED <<gen, rng, first, ver>>
    /\ UNCHANGED <<api_vars, scored, unit>>

\* the next embedding step of caller c, on c's own raster; the random generator of
\* the ghost step is left behind in rng, where the next ghost step finds it
CallEmbed(c) ==
    /\ calls[c].pc = "embedding" /\ Stage(calls[c]) # "finish"
    /\ \E g \in {calls[c]} :
          IF Stage(g) = "ghost_dots"
          THEN \E r \in {EmbedGhostDots(g.img_array, g.args.doc_id, rng)} :
                  /\ calls' = [calls EXCEPT ![c] =
                                 [g EXCEPT !.img_array = r.img,
                                           !.ghost_pattern = r.pattern, !.k = @ + 1,
                                           !.steps = Logged(g, "ghost_dots")]]
                  /\ rng' = r.rng
          ELSE IF Stage(g) = "frequency_watermark"
          THEN \E r \in {EmbedFrequencyWatermark(g.img_array, g.args.doc_id)} :
                  /\ calls' = [calls EXCEPT ![c] =
                                 IF r.raised THEN [g EXCEPT !.pc = "raised"]
                                 ELSE [g EXCEPT !.img_array = r.img,
                                                !.signature = r.signature, !.k = @ + 1,
                                                !.steps = Logged(g, "frequency_watermark")]]
                  /\ UNCHANGED rng
          ELSE \E r \in {AddPixelFingerprint(g.img_array, g.args.doc_id)} :
                  /\ calls' = [calls EXCEPT ![c] =
                                 [g EXCEPT !.img_array = r.img,
                                           !.fingerprint_hash = r.fingerprint_hash,
                                           !.k = @ + 1,
                                           !.steps = Logged(g, "pixel_fingerprint")]]
                  /\ UNCHANGED rng
    /\ UNCHANGED <<gen, first, ver>>
    /\ UNCHANGED <<api_vars, scored, unit>>

\* the PNG bytes and the metadata record of caller c
CallFinish(c) ==
    /\ calls[c].pc = "embedding" /\ Stage(calls[c]) = "finish"
    /\ \E g \in {calls[c]} :
          calls' = [calls EXCEPT ![c] =
                      [g EXCEPT !.pc = "done",
                                !.out = [image_bytes |-> PngEncode(g.img_array),
                                         metadata |-> SecurityMetadata(
                                             g.ghost_pattern, g.signature,
                                             g.fingerprint_hash, g.img_array)]]]
    /\ UNCHANGED <<gen, rng, first, ver>>
    /\ UNCHANGED <<api_vars, scored, unit>>

\* verify_qr_code_bytes by caller c on what its generate call returned
CallVerify(c, corr) ==
    /\ calls[c].pc = "done"
    /\ \E g \in {calls[c]} :
          calls' = [calls EXCEPT ![c] =
                      [pc |-> "verified", args |-> g.args, out |-> g.out, corr |-> corr,
                       report |-> VerifyQrCodeBytes(g.out.image_bytes, g.out.metadata,
                                                    corr)]]
    /\ UNCHANGED <<gen, rng, first, ver>>
    /\ UNCHANGED <<api_vars, scored, unit>>

\* caller c is through
CallReturn(c) ==
    /\ calls[c].pc \in {"verified", "raised"}
    /\ calls' = [calls EXCEPT ![c] = Idle]
    /\ UNCHANGED <<gen, rng, first, ver>>
    /\ UNCHANGED <<api_vars, scored, unit>>

NextCalls ==
    \/ \E c \in Callers, data \in Datas, box_size \in BoxSizes, border \in Borders :
          CallStart(c, data, box_size, border)
    \/ \E c \in Callers : CallEmbed(c)
    \/ \E c \in Callers : CallFinish(c)
    \/ \E c \in Callers, corr \in ApiCorrelations : CallVerify(c, corr)
    \/ \E c \in Callers : CallReturn(c)

SpecCalls == Init /\ [][NextCalls]_vars

\* ---------------------------------------------- the methods on their own
\* the rasters handed to _embed_ghost_dots: h rows of w pixels, by pattern
Patterns == {"white", "dark", "near", "tinted", "mixed", "sparse"}
Sides == 1..MaxSide

PatternPixel(pattern, y, x) ==
    CASE pattern = "white" -> White
      [] pattern = "dark" -> Black
      [] pattern = "near" -> <<250, 252, 255>>
      [] pattern = "tinted" -> <<255, 255, 249>>
      [] pattern = "mixed" ->
            CASE (x + 2 * y) % 4 = 0 -> White
              [] (x + 2 * y) % 4 = 1 -> Black
              [] (x + 2 * y) % 4 = 2 -> <<250, 250, 250>>
              [] OTHER -> <<255, 249, 255>>
      [] OTHER -> IF x = 0 THEN White ELSE Black

Raster(pattern, h, w) ==
    [y \in 0..(h - 1) |-> [x \in 0..(w - 1) |-> PatternPixel(pattern, y, x)]]

\* gray strips, one row high, handed to _analyze_metadata
GrayLevels == {0, 5, 10, 15}
Strips == [0..(StripWidth - 1) -> GrayLevels]
Strip(levels) == [y \in {0} |-> [x \in DOMAIN levels |-> <<levels[x], levels[x], levels[x]>>]]

\* rasters with one grid pixel, at (step, step), handed to _analyze_pixel_fingerprint
ProbeLevels == {0, 14, 15, 30, 31}
Probe(pixel) ==
    [y \in 0..step |-> [x \in 0..step |-> IF y = step /\ x = step THEN pixel ELSE Black]]

\* the correlations handed to the frequency channel on its own: NaN, both ends, zero
\* and the values around the pass mark
UnitCorrelations ==
    {[nan |-> TRUE, c |-> 0]} \cup
    {[nan |-> FALSE, c |-> v] : v \in {-10000, -5000, -1, 0, 1, 4999, 5000, 5001, 10000}}

\* freq_result = self._verify_frequency_watermark(scanned_image, signature, size)
FrequencyCall(data, seed, corr) ==
    /\ unit = None
    /\ \E img \in {MakeImage(data, 2, 1)} :
         \E original_signature \in {NpArray(<<SigSize, SigSize>>, Signature(seed))} :
            unit' = [op |-> "verify_frequency_watermark", img_array |-> img,
                     original_signature |-> original_signature, corr |-> corr,
                     out |-> VerifyFrequencyWatermark(img, original_signature, FALSE,
                                                      <<0, 0>>, corr)]
    /\ UNCHANGED <<core_vars, api_vars, scored, calls>>

\* ghost_pattern = self._embed_ghost_dots(img_array, doc_id)
GhostCall(pattern, h, w, seed) ==
    /\ unit = None
    /\ \E img \in {Raster(pattern, h, w)} :
         \E out \in {EmbedGhostDots(img, seed, rng)} :
            unit' = [op |-> "embed_ghost_dots", img_array |-> img, seed |-> seed,
                     out |-> out]
    /\ UNCHANGED <<core_vars, api_vars, scored, calls>>

\* metadata_result = self._analyze_metadata(scanned_image)
MetadataCall(levels) ==
    /\ unit = None
    /\ \E img \in {Strip(levels)} :
         unit' = [op |-> "analyze_metadata", img_array |-> img,
                  out |-> AnalyzeMetadata(img)]
    /\ UNCHANGED <<core_vars, api_vars, scored, calls>>

\* fingerprint_result = self._analyze_pixel_fingerprint(scanned_image, hash)
FingerprintCall(pixel) ==
    /\ unit = None
    /\ \E img \in {Probe(pixel)} :
         unit' = [op |-> "analyze_pixel_fingerprint", img_array |-> img,
                  out |-> AnalyzePixelFingerprint(img, FingerprintHash("d1"))]
    /\ UNCHANGED <<core_vars, api_vars, scored, calls>>

\* the hashes a record may hold: none, a document's own, another document's, any text
StoredHashes == {<<>>, FingerprintHash("d1"), FingerprintHash("d2"), <<"0000">>}

\* the fingerprint channel applied to one raster with two stored hashes
FingerprintPairCall(pixel, hash_a, hash_b) ==
    /\ unit = None
    /\ \E img \in {Probe(pixel)} :
         unit' = [op |-> "analyze_pixel_fingerprint twice", img_array |-> img,
                  hash_a |-> hash_a, hash_b |-> hash_b,
                  out_a |-> AnalyzePixelFingerprint(img, hash_a),
                  out_b |-> AnalyzePixelFingerprint(img, hash_b)]
    /\ UNCHANGED <<core_vars, api_vars, scored, calls>>

\* the arrays and records handed to verify_qr_authenticity on its own: the image of
\* a generate call or an array without pixels, against the record of that call, the
\* record with a one-dimensional signature, the record with an image_size of (0, 0),
\* or the record with an empty ghost_pattern
EmptyArray == [y \in {} |-> <<>>]
ArrayKinds == {"generated", "empty"}
UnitRecordKinds == {"stored", "flat_signature", "zero_size", "no_ghost"}

\* the correlations of the frequency channel in these calls: those of the round trips
\* and one more between the pass mark and 1
AuthenticityCorrelations == Correlations \cup {[nan |-> FALSE, c |-> 6497]}
UnitRecord(md, kind) ==
    IF kind = "zero_size" THEN [md EXCEPT !.image_size = <<0, 0>>] ELSE Record(md, kind)

\* detector.verify_qr_authenticity(scanned_image, security_metadata) on what a generate
\* call g returned, and the same array against the record as g holds it
AuthenticityCall(g, array, kind, corr) ==
    /\ unit = None
    /\ \E scanned_image \in {IF array = "empty" THEN EmptyArray
                            ELSE PngDecode(g.image_bytes)} :
         \E security_metadata \in {UnitRecord(g.metadata, kind)} :
            unit' = [op |-> "verify_qr_authenticity", scanned_image |-> scanned_image,
                     kind |-> kind, security_metadata |-> security_metadata,
                     corr |-> corr,
                     out |-> VerifyQrAuthenticity(scanned_image, security_metadata, corr),
                     intact |-> VerifyQrAuthenticity(scanned_image, g.metadata, corr)]
    /\ UNCHANGED <<core_vars, api_vars, scored, calls>>

\* generate_secure_qr(data, doc_id, box_size, border) in one piece, at several sizes:
\* <<box_size, border>>
UnitSizes == {<<1, 0>>, <<1, 3>>, <<2, 0>>, <<2, 1>>, <<2, 2>>}

GenerateCall(data, doc_id, box_size, border) ==
    /\ unit = None
    /\ \E out \in {GenerateSecureQr(data, doc_id, box_size, border, rng)} :
         unit' = [op |-> "generate_secure_qr",
                  args |-> [data |-> data, doc_id |-> doc_id,
                            box_size |-> box_size, border |-> border],
                  out |-> out]
    /\ UNCHANGED <<core_vars, api_vars, scored, calls>>

\* the raster sides handed to _add_pixel_fingerprint: without a grid position
\* (below step + 1) and with one, two and three per axis
EmbedSides == {1, step, step + 1, 2 * step + 1, 3 * step + 1}

\* fingerprint_hash = self._add_pixel_fingerprint(img_array, doc_id)
FingerprintEmbedCall(pattern, h, w, seed) ==
    /\ unit = None
    /\ \E img \in {Raster(pattern, h, w)} :
         \E out \in {AddPixelFingerprint(img, seed)} :
            unit' = [op |-> "add_pixel_fingerprint", img_array |-> img, seed |-> seed,
                     out |-> out]
    /\ UNCHANGED <<core_vars, api_vars, scored, calls>>

\* the method has returned; the next call starts from nothing
UnitReturn ==
    /\ unit # None
    /\ unit' = None
    /\ UNCHANGED <<core_vars, api_vars, scored, calls>>

NextUnits ==
    \/ \E pattern \in Patterns, h \in Sides, w \in Sides, seed \in DocIds :
          GhostCall(pattern, h, w, seed)
    \/ \E levels \in Strips : MetadataCall(levels)
    \/ \E pattern \in Patterns, h \in EmbedSides, w \in EmbedSides, seed \in DocIds :
          FingerprintEmbedCall(pattern, h, w, seed)
    \/ \E data \in Datas, doc_id \in DocIds, size \in UnitSizes :
          GenerateCall(data, doc_id, size[1], size[2])
    \/ \E data \in Datas, doc_id \in DocIds :
          \E g \in {GenerateSecureQr(data, doc_id, 2, 1, rng)} :
             \E array \in ArrayKinds, kind \in UnitRecordKinds,
                corr \in AuthenticityCorrelations :
                AuthenticityCall(g, array, kind, corr)
    \/ \E data \in Datas, seed \in DocIds, corr \in UnitCorrelations :
          FrequencyCall(data, seed, corr)
    \/ \E pixel \in ProbeLevels \X ProbeLevels \X ProbeLevels : FingerprintCall(pixel)
    \/ \E pixel \in ProbeLevels \X ProbeLevels \X ProbeLevels,
          hash_a \in StoredHashes, hash_b \in StoredHashes :
          FingerprintPairCall(pixel, hash_a, hash_b)
    \/ UnitReturn

SpecUnits == Init /\ [][NextUnits]_vars

\* ================================================================ properties
\* the report of the last verification, when it returned one
Returned == ver # None /\ ~ver.result.raised
ReportOf == ver.result.result

\* C1: the verdict is a total three-way partition of the composite score: 70 and above
\* is AUTHENTIC with no warning, 40 up to 70 is SUSPICIOUS with the one warning about
\* the threshold, below 40 is COUNTERFEIT with the one warning about failed features;
\* every combination of the four channel scores gets exactly one verdict
C1_VerdictPartition ==
    scored # None =>
        LET composite == scored.scores[1] * 45 + scored.scores[2] * 10
                         + scored.scores[3] * 35 + scored.scores[4] * 10
            r == scored.report
        IN  /\ r.verdict \in {"AUTHENTIC", "SUSPICIOUS", "COUNTERFEIT"}
            /\ composite >= 700000 =>
                   r.verdict = "AUTHENTIC" /\ r.warnings = <<>>
            /\ (400000 <= composite /\ composite < 700000) =>
                   /\ r.verdict = "SUSPICIOUS"
                   /\ r.warnings = <<"Authenticity score is below recommended threshold">>
            /\ composite < 400000 =>
                   /\ r.verdict = "COUNTERFEIT"
                   /\ r.warnings = <<"Multiple security features failed verification">>

\* a composite of exactly 40 (all four channels at 40) reported SUSPICIOUS
C1_Witness ==
    /\ scored # None
    /\ scored.scores = <<4000, 4000, 4000, 4000>>
    /\ scored.report.verdict = "SUSPICIOUS"
    /\ Len(scored.report.warnings) = 1

\* C2: verify_qr_authenticity returns a report with a verdict and a composite score for
\* every candidate and every metadata record, malformed ones included: no exception
\* reaches the caller
C2_NoExceptionPropagates ==
    ver # None =>
        /\ ~ver.result.raised
        /\ ReportOf.verdict \in {"AUTHENTIC", "SUSPICIOUS", "COUNTERFEIT"}
        /\ ReportOf.authenticity_score \in 0..10000

\* the coordinate lies inside [0, width) x [0, height)
InBounds(img, coord) ==
    /\ 0 <= coord.x /\ coord.x < Width(img)
    /\ 0 <= coord.y /\ coord.y < Height(img)

\* the record has every key the ghost-dot channel reads
WellKeyed(record) ==
    /\ HasKey(record, "ghost_pattern")
    /\ HasKey(record.ghost_pattern, "coordinates")
    /\ HasKey(record.ghost_pattern, "count")
    /\ \A i \in DOMAIN record.ghost_pattern.coordinates :
          {"x", "y", "value"} \subseteq DOMAIN record.ghost_pattern.coordinates[i]

\* C3: in ghost-dot detection a stored coordinate outside the candidate's bounds
\* (x >= width, y >= height, or a negative x or y) is skipped without raising and is
\* never counted as detected
C3_OutOfBoundsSkipped ==
    (ver # None /\ WellKeyed(ver.record)) =>
        /\ ~ver.result.raised
        /\ LET img == PngDecode(ver.image_bytes)
               coords == ver.record.ghost_pattern.coordinates
           IN  ReportOf.details.ghost_dots.detected =
                   Cardinality({i \in DOMAIN coords :
                                   /\ InBounds(img, coords[i])
                                   /\ CoordDetected(img, coords[i])})

\* C4: round trip: the image generate returned, verified against the metadata the same
\* call returned, is AUTHENTIC with a composite score of at least 70
C4_RoundTrip ==
    (ver # None /\ ver.own /\ ver.candidate = "original" /\ ver.kind = "stored") =>
        /\ ~ver.result.raised
        /\ ReportOf.verdict = "AUTHENTIC"
        /\ ReportOf.authenticity_score >= 7000

C4_Witness ==
    /\ ver # None /\ ver.own /\ ver.candidate = "original" /\ ver.kind = "stored"
    /\ ver.image_bytes = gen.out.image_bytes /\ ver.record = gen.out.metadata
    /\ Returned /\ ReportOf.verdict = "AUTHENTIC"
    /\ ReportOf.details.ghost_dots.expected = ghost_dot_density

\* C5: an image of generate with every channel value quantized to a multiple of 5,
\* verified against the original metadata, gets a ghost-dot score below 70 with status
\* FAIL and a verdict other than AUTHENTIC
C5_QuantizedRejected ==
    (ver # None /\ ver.own /\ ver.candidate = "screenshot" /\ ver.kind = "stored") =>
        /\ ~ver.result.raised
        /\ ReportOf.details.ghost_dots.score < 7000
        /\ ReportOf.details.ghost_dots.status = "FAIL"
        /\ ReportOf.verdict # "AUTHENTIC"

\* C6: determinism: a generate call with the arguments of an earlier call returns the
\* same image bytes and the same metadata, whatever calls were made in between
C6_Determinism ==
    (gen.pc = "done" /\ first # None /\ first.args = gen.args) =>
        /\ gen.out.image_bytes = first.out.image_bytes
        /\ gen.out.metadata = first.out.metadata

\* the first call's arguments again, after a call with other arguments
C6_Witness ==
    /\ gen.pc = "done" /\ first # None /\ first.args = gen.args
    /\ first.others = 1
    /\ gen.out = first.out

\* C7: in every generate call the three embedding steps run exactly once each on the
\* same raster, ghost dots, then frequency watermark, then pixel fingerprint: the
\* blend meets a raster that holds the ghost pixels, the noise meets the blended
\* raster, and the metadata and the PNG bytes exist only after all three
C7_EmbeddingOrder ==
    gen.pc # "idle" =>
        /\ Len(gen.steps) <= 3
        /\ \A i \in DOMAIN gen.steps :
              /\ gen.steps[i].name =
                     <<"ghost_dots", "frequency_watermark", "pixel_fingerprint">>[i]
              /\ gen.steps[i].carried =
                     [ghost_dots |-> i > 1, frequency_watermark |-> i > 2,
                      pixel_fingerprint |-> FALSE]
        /\ gen.pc = "done" => Len(gen.steps) = 3
        /\ gen.out # None => gen.pc = "done"

C7_Witness ==
    /\ gen.pc = "done" /\ gen.out # None
    /\ Len(gen.steps) = 3
    /\ gen.steps[3].name = "pixel_fingerprint"
    /\ gen.steps[3].carried.frequency_watermark
\* C8: the metadata record the API layer hands to the detector at verification equals,
\* field for field (ghost_pattern, watermark_signature, fingerprint_hash, image_size,
\* security_version), the record generate returned when the document was uploaded
C8_MetadataVerbatim ==
    (resp # None /\ resp.endpoint = "verify-authenticity" /\ resp.status = 200) =>
        /\ DOMAIN resp.security_metadata = DOMAIN returned[resp.unique_id]
        /\ \A k \in {"ghost_pattern", "watermark_signature", "fingerprint_hash",
                     "image_size", "security_version"} :
              /\ HasKey(resp.security_metadata, k)
              /\ resp.security_metadata[k] = returned[resp.unique_id][k]

\* C9: scan limit: an owner's GET /verify succeeds (200, the PDF, scan_count one higher,
\* X-Scan-Count the new count) while scan_count is below scan_limit, so exactly
\* scan_limit times in a row of such requests; every later one is answered 410 without
\* the PDF and leaves scan_count as it was
C9_ScanLimit ==
    (resp # None /\ resp.endpoint = "verify" /\ resp.status \notin {403, 404}) =>
        LET row == documents[resp.unique_id]
        IN  /\ resp.status \in {200, 410}
            /\ resp.status = 200 <=> resp.count_before < row.scan_limit
            /\ resp.status = 200 =>
                   /\ resp.content = row.pdf_data
                   /\ row.scan_count = resp.count_before + 1
                   /\ resp.x_scan_count = row.scan_count
                   /\ resp.x_scan_count <= row.scan_limit
            /\ resp.status = 410 =>
                   /\ ~HasKey(resp, "content")
                   /\ row.scan_count = resp.count_before

\* the last permitted request of a document with limit MaxScanLimit
C9_Witness ==
    /\ resp # None /\ resp.endpoint = "verify" /\ resp.status = 200
    /\ resp.x_scan_limit = MaxScanLimit
    /\ resp.x_scan_count = MaxScanLimit
    /\ documents[resp.unique_id].scan_count = MaxScanLimit

\* C10: POST /verify-secure returns the PDF data and increments scan_count only when
\* the detector's verdict for the upload is AUTHENTIC; for SUSPICIOUS or COUNTERFEIT
\* it answers success=false with no pdf_data and leaves scan_count unchanged
C10_SecureGate ==
    (resp # None /\ resp.endpoint = "verify-secure" /\ resp.status = 200) =>
        IF resp.verdict = "AUTHENTIC"
        THEN /\ resp.success
             /\ resp.pdf_data = documents[resp.unique_id].pdf_data
             /\ resp.count_after = resp.count_before + 1
        ELSE /\ resp.verdict \in {"SUSPICIOUS", "COUNTERFEIT"}
             /\ ~resp.success
             /\ ~HasKey(resp, "pdf_data")
             /\ resp.count_after = resp.count_before
             /\ documents[resp.unique_id].scan_count = resp.count_before

\* a refused upload
C10_Witness ==
    /\ resp # None /\ resp.endpoint = "verify-secure" /\ resp.status = 200
    /\ resp.verdict = "SUSPICIOUS"
    /\ ~resp.success
    /\ documents[resp.unique_id].scan_count = resp.count_before
\* C11: the four fusion weights sum to 1 and every channel returns a score in
\* [0, 100] on every path that returns (normal, missing input, size mismatch, caught
\* error), so the reported authenticity_score lies in [0, 100]
C11_ScoresInRange ==
    /\ w_ghost_dots + w_frequency + w_fingerprint + w_metadata = 100
    /\ Returned =>
          /\ \A ch \in {"ghost_dots", "frequency_watermark", "pixel_fingerprint",
                        "metadata"} :
                ReportOf.details[ch].score \in 0..10000
          /\ ReportOf.authenticity_score \in 0..10000

\* a record whose count is below the number of coordinates found: the rate is above
\* 100 per cent and the score is capped
C11_Witness ==
    /\ Returned /\ ver.kind = "low_count"
    /\ ReportOf.details.ghost_dots.detected > ReportOf.details.ghost_dots.expected
    /\ ReportOf.details.ghost_dots.score = 10000
    /\ ReportOf.authenticity_score <= 10000
\* C12: missing stored inputs are not hard failures: an absent or empty ghost
\* pattern gives the ghost channel score 0 and NO_PATTERN, an empty watermark
\* signature gives the frequency channel score 0 and NO_SIGNATURE, an empty
\* fingerprint hash gives the fingerprint channel score 0 and NO_FINGERPRINT; the
\* remaining channels are still evaluated and a verdict is returned
C12_MissingInputs ==
    ver # None =>
        LET record == ver.record
            img == PngDecode(ver.image_bytes)
            no_pattern == Get(record, "ghost_pattern", EmptyDict) = EmptyDict
            no_signature == Get(record, "watermark_signature", EmptyList) = EmptyList
            no_hash == Get(record, "fingerprint_hash", <<>>) = <<>>
        IN  (no_pattern \/ no_signature \/ no_hash) =>
                /\ ~ver.result.raised
                /\ ReportOf.verdict \in {"AUTHENTIC", "SUSPICIOUS", "COUNTERFEIT"}
                /\ no_pattern =>
                       /\ ReportOf.details.ghost_dots.score = 0
                       /\ ReportOf.details.ghost_dots.status = "NO_PATTERN"
                /\ no_signature =>
                       /\ ReportOf.details.frequency_watermark.score = 0
                       /\ ReportOf.details.frequency_watermark.status = "NO_SIGNATURE"
                /\ no_hash =>
                       /\ ReportOf.details.pixel_fingerprint.score = 0
                       /\ ReportOf.details.pixel_fingerprint.status = "NO_FINGERPRINT"
                /\ ~no_pattern =>
                       ReportOf.details.ghost_dots =
                           DetectGhostDots(img, record.ghost_pattern).result
                /\ ~no_signature =>
                       ReportOf.details.frequency_watermark.status \in {"PASS", "FAIL"}
                /\ ~no_hash =>
                       ReportOf.details.pixel_fingerprint = AnalyzeGrid(img)
                /\ ReportOf.details.metadata = AnalyzeMetadata(img)

\* the fingerprint hash is empty, the other three channels pass
C12_Witness ==
    /\ Returned /\ ver.kind = "no_fingerprint"
    /\ ReportOf.details.pixel_fingerprint.status = "NO_FINGERPRINT"
    /\ ReportOf.details.ghost_dots.status = "PASS"
    /\ ReportOf.details.frequency_watermark.status = "PASS"
    /\ ReportOf.details.metadata.status = "PASS"
    /\ ReportOf.verdict = "SUSPICIOUS"
\* C13: resize tolerance: for a candidate whose dimensions differ from the recorded
\* image_size (smaller or larger, one too small for the 8x8 block included)
\* verification never raises; the frequency channel returns a score in [0, 100]
\* computed on the candidate resized to image_size, or score 0 with SIZE_MISMATCH
C13_ResizeTolerance ==
    (ver # None /\ ver.kind = "stored") =>
        LET img == PngDecode(ver.image_bytes)
            size == ver.record.image_size
        IN  <<Height(img), Width(img)>> # size =>
                /\ ~ver.result.raised
                /\ \/ /\ ReportOf.details.frequency_watermark.status \in {"PASS", "FAIL"}
                      /\ ReportOf.details.frequency_watermark.score \in 0..10000
                      /\ TransformShape(img, TRUE, size) = size
                   \/ /\ ReportOf.details.frequency_watermark.status = "SIZE_MISMATCH"
                      /\ ReportOf.details.frequency_watermark.score = 0

\* a candidate too small for the block at its own size, scored after the resize
C13_Witness ==
    /\ Returned /\ ver.kind = "stored" /\ ver.candidate = "cropped"
    /\ ~BlockFits(Height(PngDecode(ver.image_bytes)), Width(PngDecode(ver.image_bytes)))
    /\ ReportOf.details.frequency_watermark.status = "PASS"
\* C14: generate and verify calls for different documents, interleaved in any order,
\* each return what the same call returns when run alone: no random generator,
\* weight table or raster is shared between calls
C14_CallsIndependent ==
    \A c \in Callers :
        calls[c].pc \in {"done", "verified"} =>
            LET a == calls[c].args
                alone == GenerateSecureQr(a.data, a.doc_id, a.box_size, a.border, 0)
            IN  /\ ~alone.raised
                /\ calls[c].out.image_bytes = alone.image_bytes
                /\ calls[c].out.metadata = alone.metadata
                /\ calls[c].pc = "verified" =>
                       calls[c].report =
                           VerifyQrCodeBytes(alone.image_bytes, alone.metadata,
                                             calls[c].corr)

\* one caller has its report while the other is between two embedding steps, and
\* the random generator left behind is the other caller's
C14_Witness ==
    /\ calls["c1"].pc = "verified"
    /\ calls["c2"].pc = "embedding" /\ Len(calls["c2"].steps) = 2
    /\ rng # 0
    /\ ~calls["c1"].report.raised
    /\ calls["c1"].report.result.verdict = "AUTHENTIC"
\* C15: ghost-dot detection, for a pattern with count > 0: detected is the number of
\* in-bounds recorded coordinates whose truncated channel average lies in [245, 255]
\* and is within 5 of the recorded value; detection_rate = detected / expected x 100
\* with expected the recorded count; score = min(100, detection_rate x 1.05); status
\* PASS iff score >= 70. For a pattern with count = 0: score 100, status PASS
C15_GhostDetect ==
    (ver # None /\ WellKeyed(ver.record)) =>
        LET img == PngDecode(ver.image_bytes)
            coords == ver.record.ghost_pattern.coordinates
            count == ver.record.ghost_pattern.count
            average(c) == (img[c.y][c.x][1] + img[c.y][c.x][2] + img[c.y][c.x][3]) \div 3
            found == Cardinality({i \in DOMAIN coords :
                        /\ InBounds(img, coords[i])
                        /\ 245 <= average(coords[i]) /\ average(coords[i]) <= 255
                        /\ Abs(average(coords[i]) - coords[i].value) <= 5})
        IN  /\ ~ver.result.raised
            /\ LET g == ReportOf.details.ghost_dots
               IN  IF count = 0
                   THEN g.score = 10000 /\ g.status = "PASS"
                   ELSE count > 0 =>
                          /\ g.detected = found
                          /\ g.expected = count
                          /\ g.detection_rate = RoundHalfEven(found * 10000, count)
                          /\ g.score = Min(10000, RoundHalfEven(found * 10500, count))
                          /\ g.status = "PASS" <=> found * 10500 >= 7000 * count

\* the embed call that has just returned, its raster before and what it recorded
Embedded == unit # None /\ unit.op = "embed_ghost_dots"
WhiteBefore ==
    {c \in (DOMAIN unit.img_array) \X (DOMAIN unit.img_array[0]) :
        \A k \in 1..3 : unit.img_array[c[1]][c[2]][k] >= 250}
Recorded ==
    {<<unit.out.pattern.coordinates[i].y, unit.out.pattern.coordinates[i].x>> :
        i \in 1..Len(unit.out.pattern.coordinates)}

\* C16: the ghost-dot embed records count = min(40, number of white pixels of the
\* raster): 40 distinct dots when the raster has at least 40 white pixels, a dot on
\* every white pixel when it has fewer, and count 0 with an empty coordinate list and
\* the raster as it was when it has none.
C16_GhostCount ==
    Embedded =>
        LET n == Cardinality(WhiteBefore)
            p == unit.out.pattern
        IN  /\ p.count = (IF n >= 40 THEN 40 ELSE n)
            /\ Len(p.coordinates) = p.count
            /\ Cardinality(Recorded) = p.count
            /\ Recorded \subseteq WhiteBefore
            /\ n < 40 => Recorded = WhiteBefore
            /\ n = 0 => /\ p.coordinates = <<>>
                        /\ p.count = 0
                        /\ unit.out.img = unit.img_array

\* a raster with more than 40 white pixels, 40 of them recorded
C16_Witness ==
    /\ Embedded
    /\ Cardinality(WhiteBefore) > 40
    /\ unit.out.pattern.count = 40
    /\ Cardinality(Recorded) = 40

\* C17: every coordinate the ghost-dot embed records lies inside the raster, was
\* white (all three channels >= 250) before the step, carries a value in [250, 254],
\* and holds that value in all three channels after the step; every pixel that was
\* not selected is as it was before the step.
C17_GhostFrame ==
    Embedded =>
        LET before == unit.img_array
            after == unit.out.img
            coords == unit.out.pattern.coordinates
            h == Height(before)
            w == Width(before)
        IN  /\ \A i \in 1..Len(coords) :
                  LET c == coords[i]
                  IN  /\ 0 <= c.x /\ c.x < w
                      /\ 0 <= c.y /\ c.y < h
                      /\ \A k \in 1..3 : before[c.y][c.x][k] >= 250
                      /\ 250 <= c.value /\ c.value <= 254
                      /\ after[c.y][c.x] = <<c.value, c.value, c.value>>
            /\ DOMAIN after = DOMAIN before
            /\ \A y \in 0..(h - 1) :
                  /\ DOMAIN after[y] = DOMAIN before[y]
                  /\ \A x \in 0..(w - 1) :
                        <<y, x>> \notin Recorded => after[y][x] = before[y][x]

\* dots written over white and near-white pixels, with white, near-white and other
\* pixels left unselected
C17_Witness ==
    /\ Embedded
    /\ unit.out.pattern.count = 40
    /\ Cardinality(WhiteBefore \ Recorded) > 0
    /\ \E c \in Recorded : unit.img_array[c[1]][c[2]] # unit.out.img[c[1]][c[2]]
    /\ \E y \in DOMAIN unit.img_array : \E x \in DOMAIN unit.img_array[y] :
          unit.img_array[y][x] = <<255, 249, 255>>

\* the truncated channel average of the presented image at a recorded coordinate
AverageAt(c) ==
    LET p == ver.image_bytes.png[c.y][c.x]
    IN  (p[1] + p[2] + p[3]) \div 3

\* C18: the image generate returned for a raster with at least 40 white pixels,
\* verified against its own metadata, gets a ghost-dot score of at least 95: after the
\* frequency blend and the fingerprint noise every recorded ghost pixel still averages
\* within [245, 255] and within 5 of its recorded value.
C18_GhostSurvives ==
    (/\ ver # None /\ ver.own /\ ver.candidate = "original" /\ ver.kind = "stored"
     /\ ver.record.ghost_pattern.count >= 40) =>
        /\ ~ver.result.raised
        /\ ReportOf.details.ghost_dots.score >= 9500
        /\ \A i \in DOMAIN ver.record.ghost_pattern.coordinates :
              LET c == ver.record.ghost_pattern.coordinates[i]
              IN  /\ 245 <= AverageAt(c) /\ AverageAt(c) <= 255
                  /\ Abs(AverageAt(c) - c.value) <= 5

\* a round trip where the later steps did change recorded ghost pixels, one of them
\* by the fingerprint noise on a grid position
C18_Witness ==
    /\ ver # None /\ ver.own /\ ver.candidate = "original" /\ ver.kind = "stored"
    /\ ver.record.ghost_pattern.count = 40
    /\ Returned /\ ReportOf.details.ghost_dots.score >= 9500
    /\ \E i \in DOMAIN ver.record.ghost_pattern.coordinates :
          LET c == ver.record.ghost_pattern.coordinates[i]
          IN  /\ c.y \in GridCoords(Height(ver.image_bytes.png))
              /\ c.x \in GridCoords(Width(ver.image_bytes.png))
              /\ ver.image_bytes.png[c.y][c.x] # <<c.value, c.value, c.value>>
    /\ \E i \in DOMAIN ver.record.ghost_pattern.coordinates :
          LET c == ver.record.ghost_pattern.coordinates[i]
          IN  /\ c.x \notin GridCoords(Width(ver.image_bytes.png))
              /\ ver.image_bytes.png[c.y][c.x] # <<c.value, c.value, c.value>>

\* the sharpness of the raster handed to _analyze_metadata, as the fraction num / den
Analyzed == unit # None /\ unit.op = "analyze_metadata"
SharpnessOf ==
    LET st == LaplacianStats(unit.img_array)
    IN  [num |-> (st.q - st.f) * st.n - st.rr, den |-> st.n * st.n]

\* C19: the metadata heuristic maps the sharpness s to a score by bands: s > 100 gives
\* 90 with has_camera_characteristics true, 50 <= s <= 100 gives 60, s < 50 gives 30,
\* has_camera_characteristics is false in the two lower bands, and the status is PASS
\* iff the score is at least 50.
C19_MetadataBands ==
    Analyzed =>
        LET s == SharpnessOf
            o == unit.out
        IN  /\ s.num > 100 * s.den => o.score = 9000 /\ o.has_camera_characteristics
            /\ (50 * s.den <= s.num /\ s.num <= 100 * s.den) =>
                  o.score = 6000 /\ ~o.has_camera_characteristics
            /\ s.num < 50 * s.den => o.score = 3000 /\ ~o.has_camera_characteristics
            /\ o.status = "PASS" <=> o.score >= 5000

\* the grid variance of the raster handed to _analyze_pixel_fingerprint, num / den
Fingerprinted == unit # None /\ unit.op = "analyze_pixel_fingerprint"
GridVariance == VarianceOf(GridValues(unit.img_array))

\* C20: fingerprint verify maps the grid variance v to integrity: 50 <= v <= 200 gives
\* min(1.0, 0.9 + v/2000), v < 50 gives v/50 x 0.6, v > 200 gives 0.7; the score is
\* integrity x 100, the status is PASS iff that score is at least 60, and so the
\* channel passes exactly when v >= 50. Integrity is reported to 4 decimals and the
\* score to 2.
C20_FingerprintBands ==
    Fingerprinted =>
        LET v == GridVariance
            o == unit.out
            \* integrity x 10000 x v.den, before rounding
            exact == IF 50 * v.den <= v.num /\ v.num <= 200 * v.den
                     THEN Min(10000 * v.den, 9000 * v.den + 5 * v.num)
                     ELSE IF v.num < 50 * v.den THEN 120 * v.num
                     ELSE 7000 * v.den
        IN  /\ o.integrity = RoundHalfEven(exact, v.den)
            /\ o.score = RoundHalfEven(100 * exact, 100 * v.den)
            /\ o.status = "PASS" <=> exact >= 6000 * v.den
            /\ o.status = "PASS" <=> v.num >= 50 * v.den
            /\ o.status \in {"PASS", "FAIL"}

\* a grid whose variance is exactly 50: integrity 0.925, PASS
C20_Witness ==
    /\ Fingerprinted
    /\ GridVariance.num = 50 * GridVariance.den
    /\ unit.out.integrity = 9250
    /\ unit.out.status = "PASS"

\* the frequency channel applied on its own, with a stored signature of the block's shape
Correlated == unit # None /\ unit.op = "verify_frequency_watermark"

\* C21: frequency verify, for a stored signature whose shape matches the extracted
\* block, returns score = clamp(correlation x 100, 0, 100): a zero, negative or NaN
\* correlation gives score 0, and the status is PASS iff the score is at least 50.
C21_FrequencyClamp ==
    Correlated =>
        LET c == unit.corr
            o == unit.out
        IN  /\ o.status \in {"PASS", "FAIL"}
            /\ o.score = (IF c.nan THEN 0
                          ELSE IF c.c < 0 THEN 0
                          ELSE IF c.c > 10000 THEN 10000 ELSE c.c)
            /\ (c.nan \/ c.c <= 0) => o.score = 0
            /\ o.status = "PASS" <=> o.score >= 5000

\* an anti-correlated block: score 0, FAIL
C21_Witness ==
    /\ Correlated
    /\ ~unit.corr.nan /\ unit.corr.c = -10000
    /\ unit.out.score = 0
    /\ unit.out.status = "FAIL"

\* one raster analysed with two stored hashes
Paired == unit # None /\ unit.op = "analyze_pixel_fingerprint twice"

\* C22: the stored fingerprint hash is never compared with anything: for one candidate
\* image the fingerprint channel returns the same result for any two non-empty stored
\* hashes, an empty one gives NO_FINGERPRINT, and so the hash of another document
\* verifies as the document's own does.
C22_HashNotCompared ==
    Paired =>
        /\ (unit.hash_a # <<>> /\ unit.hash_b # <<>>) => unit.out_a = unit.out_b
        /\ unit.hash_a = <<>> <=> unit.out_a.status = "NO_FINGERPRINT"
        /\ unit.hash_b = <<>> <=> unit.out_b.status = "NO_FINGERPRINT"

\* the hashes of two documents, one raster, the same passing result
C22_Witness ==
    /\ Paired
    /\ unit.hash_a = FingerprintHash("d1") /\ unit.hash_b = FingerprintHash("d2")
    /\ unit.out_a = unit.out_b
    /\ unit.out_a.status = "PASS"

\* verify_qr_authenticity applied on its own, and what it returned
Verified == unit # None /\ unit.op = "verify_qr_authenticity"
Failed(channel) == channel.status = "ERROR"

\* C23: channel isolation: a channel that hits an exception of its transform returns
\* score 0 (the metadata channel: 50) with an ERROR status, the other channels'
\* results are what they are without the failure, and the composite score and the
\* verdict are computed from all four results.
C23_ChannelIsolation ==
    Verified =>
        LET img == unit.scanned_image
            md == unit.security_metadata
        IN  /\ ~unit.out.raised
            /\ ~unit.intact.raised
            /\ LET d == unit.out.result.details
                   i == unit.intact.result.details
                   composite == d.ghost_dots.score * 45 + d.frequency_watermark.score * 10
                                + d.pixel_fingerprint.score * 35 + d.metadata.score * 10
               IN  /\ Failed(d.frequency_watermark) => d.frequency_watermark.score = 0
                   /\ Failed(d.pixel_fingerprint) => d.pixel_fingerprint.score = 0
                   /\ Failed(d.metadata) => d.metadata.score = 5000
                   /\ unit.kind # "no_ghost" => d.ghost_dots = i.ghost_dots
                   /\ d.pixel_fingerprint = i.pixel_fingerprint
                   /\ d.metadata = i.metadata
                   /\ d.ghost_dots = DetectGhostDots(img, md.ghost_pattern).result
                   /\ d.pixel_fingerprint = AnalyzePixelFingerprint(img, md.fingerprint_hash)
                   /\ ~Failed(d.metadata) => d.metadata = AnalyzeMetadata(img)
                   /\ ~Failed(d.frequency_watermark) =>
                         d.frequency_watermark = i.frequency_watermark
                   /\ unit.out.result.authenticity_score = RoundHalfEven(composite, 100)
                   /\ unit.out.result.verdict =
                         (IF composite >= 700000 THEN "AUTHENTIC"
                          ELSE IF composite >= 400000 THEN "SUSPICIOUS"
                          ELSE "COUNTERFEIT")

\* the frequency channel alone fails, on a one-dimensional signature: the other three
\* pass as they do with the intact record and the verdict is still AUTHENTIC
C23_Witness ==
    /\ Verified
    /\ ~unit.out.raised /\ ~unit.intact.raised
    /\ Failed(unit.out.result.details.frequency_watermark)
    /\ ~Failed(unit.intact.result.details.frequency_watermark)
    /\ unit.out.result.details.ghost_dots.status = "PASS"
    /\ unit.out.result.details.pixel_fingerprint.status = "PASS"
    /\ unit.out.result.details.metadata.status = "PASS"
    /\ unit.out.result.verdict = "AUTHENTIC"

\* a generate call that returned
Generated == unit # None /\ unit.op = "generate_secure_qr" /\ ~unit.out.raised

\* C24: for every generate call that returns, the recorded image_size is the (height,
\* width) of the raster in the returned PNG, which is the size of the base raster the
\* encoder made (the three embedding steps leave the dimensions alone), and
\* watermark_signature is an 8x8 matrix.
C24_SizeRecorded ==
    Generated =>
        LET img == PngDecode(unit.out.image_bytes)
            md == unit.out.metadata
            side == (Modules + 2 * unit.args.border) * unit.args.box_size
        IN  /\ md.image_size = <<Height(img), Width(img)>>
            /\ Height(img) = side /\ Width(img) = side
            /\ \A y \in DOMAIN img : Cardinality(DOMAIN img[y]) = side
            /\ md.watermark_signature.shape = <<8, 8>>
            /\ Len(md.watermark_signature.data) = 8
            /\ \A i \in 1..8 : Len(md.watermark_signature.data[i]) = 8

\* a call with box_size 1 and border 3: the raster has one pixel per module and is
\* recorded with the side of the symbol plus six
C24_Witness ==
    /\ Generated
    /\ unit.args.box_size = 1 /\ unit.args.border = 3
    /\ unit.out.metadata.image_size = <<Modules + 6, Modules + 6>>
    /\ Height(PngDecode(unit.out.image_bytes)) = Modules + 6

\* the fingerprint embed that has just returned
Noised == unit # None /\ unit.op = "add_pixel_fingerprint"
OnGrid(y, x) == y >= 5 /\ y % 5 = 0 /\ x >= 5 /\ x % 5 = 0

\* C25: the fingerprint embed changes only the pixels at (y, x) with y and x both in
\* {5, 10, 15, ...} inside the raster: each channel of such a pixel becomes
\* clip(old + n, 0, 255) for an integer n in [-3, 3], every other pixel is as it was,
\* and the returned hash is the one the seed gives with any other raster.
C25_FingerprintFrame ==
    Noised =>
        LET before == unit.img_array
            after == unit.out.img
        IN  /\ DOMAIN after = DOMAIN before
            /\ \A y \in DOMAIN before :
                  /\ DOMAIN after[y] = DOMAIN before[y]
                  /\ \A x \in DOMAIN before[y] :
                        IF OnGrid(y, x)
                        THEN \A c \in 1..3 : \E n \in (-3)..3 :
                                after[y][x][c] =
                                    (IF before[y][x][c] + n < 0 THEN 0
                                     ELSE IF before[y][x][c] + n > 255 THEN 255
                                     ELSE before[y][x][c] + n)
                        ELSE after[y][x] = before[y][x]
            /\ \A pattern \in Patterns :
                  unit.out.fingerprint_hash =
                      AddPixelFingerprint(Raster(pattern, 1, 1), unit.seed).fingerprint_hash

\* a raster with nine grid positions, some of them changed, one of them a white pixel
\* that the clip held at 255 on one channel
C25_Witness ==
    /\ Noised
    /\ Height(unit.img_array) = 16 /\ Width(unit.img_array) = 16
    /\ \E y \in {5, 10, 15}, x \in {5, 10, 15} :
          unit.out.img[y][x] # unit.img_array[y][x]
    /\ \E y \in {5, 10, 15}, x \in {5, 10, 15}, c \in 1..3 :
          /\ unit.img_array[y][x] = White
          /\ unit.out.img[y][x][c] = 255
          /\ \E k \in 1..3 : unit.out.img[y][x][k] < 255

\* C26: the reported authenticity_score (the weighted sum rounded to two decimals)
\* agrees with the reported verdict (decided on the sum before rounding): the reported
\* score is at least 70 iff the verdict is AUTHENTIC, and below 40 iff it is
\* COUNTERFEIT.
C26_ScoreMatchesVerdict ==
    (Verified /\ ~unit.out.raised) =>
        /\ unit.out.result.authenticity_score >= 7000
              <=> unit.out.result.verdict = "AUTHENTIC"
        /\ unit.out.result.authenticity_score < 4000
              <=> unit.out.result.verdict = "COUNTERFEIT"

\* C27: under any interleaving of concurrent /verify and /verify-secure requests for
\* the same document, scan_count never exceeds scan_limit, and so the PDF is handed
\* out at most scan_limit times (every hand-out is one increment)
C27_LimitUnderInterleaving ==
    \A unique_id \in Tokens :
        documents[unique_id] # NoRow =>
            documents[unique_id].scan_count <= documents[unique_id].scan_limit

\* C28: a record with a missing feature is never judged AUTHENTIC on the strength of
\* the remaining channels: when the ghost channel returns NO_PATTERN or the
\* fingerprint channel returns NO_FINGERPRINT the verdict is SUSPICIOUS or
\* COUNTERFEIT (the other three weights together stay below the authenticity
\* threshold), and with all three stored features missing it is COUNTERFEIT (the
\* metadata weight alone stays below the suspicious threshold)
C28_MissingNeverAuthentic ==
    /\ w_frequency + w_fingerprint + w_metadata < authenticity_threshold
    /\ w_ghost_dots + w_frequency + w_metadata < authenticity_threshold
    /\ w_metadata < suspicious_threshold
    /\ Returned =>
           LET d == ReportOf.details
               no_pattern == d.ghost_dots.status = "NO_PATTERN"
               no_signature == d.frequency_watermark.status = "NO_SIGNATURE"
               no_fingerprint == d.pixel_fingerprint.status = "NO_FINGERPRINT"
           IN  /\ (no_pattern \/ no_fingerprint) =>
                      ReportOf.verdict \in {"SUSPICIOUS", "COUNTERFEIT"}
               /\ (no_pattern /\ no_signature /\ no_fingerprint) =>
                      ReportOf.verdict = "COUNTERFEIT"
               /\ ver.kind = "bare" =>
                      /\ no_pattern /\ no_signature /\ no_fingerprint
                      /\ ReportOf.verdict = "COUNTERFEIT"

\* the genuine image against a record without its fingerprint hash, the watermark
\* fully correlated: the best the other three channels can do
C28_Witness ==
    /\ Returned /\ ver.kind = "no_fingerprint" /\ ver.candidate = "original"
    /\ ReportOf.details.pixel_fingerprint.status = "NO_FINGERPRINT"
    /\ ReportOf.details.ghost_dots.score = 10000
    /\ ReportOf.details.frequency_watermark.score = 10000
    /\ ReportOf.details.metadata.score = 9000
    /\ ReportOf.authenticity_score = 6400
    /\ ReportOf.verdict = "SUSPICIOUS"

\* C29: for every ghost pattern with count > 0 that the ghost channel accepts, the
\* result has 0 <= detected <= expected and 0 <= detection_rate <= 100
C29_DetectedWithinExpected ==
    (/\ Returned
     /\ HasKey(ver.record, "ghost_pattern")
     /\ HasKey(ver.record.ghost_pattern, "count")
     /\ ver.record.ghost_pattern.count > 0) =>
        LET ghost == ReportOf.details.ghost_dots
        IN  /\ ghost.expected = ver.record.ghost_pattern.count
            /\ 0 <= ghost.detected /\ ghost.detected <= ghost.expected
            /\ 0 <= ghost.detection_rate /\ ghost.detection_rate <= 10000

\* the document exists and belongs to somebody else
NonOwner(user_id, unique_id) ==
    documents[unique_id] # NoRow /\ documents[unique_id].user_id # user_id

\* the response carries the PDF or a verification detail
Serves(response) ==
    \/ HasKey(response, "content") \/ HasKey(response, "pdf_data")
    \/ HasKey(response, "verdict") \/ HasKey(response, "authenticity_score")
    \/ HasKey(response, "security_metadata")

\* the step answers with this status, serves nothing and starts no verification,
\* and the documents table stays as it was
RefusedWith(statuses) ==
    /\ resp'.status \in statuses
    /\ ~Serves(resp')
    /\ documents' = documents
    /\ secure' = secure

\* C30 as stated: a request for a document by a user who is not its owner is
\* answered 403 by /verify, /verify-secure and /verify-authenticity, returns neither
\* the PDF nor any verification detail and leaves scan_count unchanged, whatever the
\* state of the document
C30_NonOwnerRefused ==
    [][\A user_id \in Users, unique_id \in Tokens :
          NonOwner(user_id, unique_id) =>
              /\ VerifyAndGetPdf(user_id, unique_id) => RefusedWith({403})
              /\ \A r \in Requests :
                    SecureBegin(r, user_id, unique_id) => RefusedWith({403})
              /\ \A filename \in {"scan.png", "scan.gif"}, upload \in UploadKinds,
                    corr \in ApiCorrelations :
                    VerifyAuthenticityEndpoint(user_id, unique_id, filename, upload, corr)
                        => RefusedWith({403})]_vars

\* C30 as amended: /verify and /verify-secure answer such a request 403, and so does
\* /verify-authenticity when the upload's file name has an allowed extension; with
\* any other file name /verify-authenticity answers 400, the file type being tested
\* before the document is looked up. In every case neither the PDF nor any
\* verification detail is returned and scan_count is unchanged
C30_NonOwnerNeverServed ==
    [][\A user_id \in Users, unique_id \in Tokens :
          NonOwner(user_id, unique_id) =>
              /\ VerifyAndGetPdf(user_id, unique_id) => RefusedWith({403})
              /\ \A r \in Requests :
                    SecureBegin(r, user_id, unique_id) => RefusedWith({403})
              /\ \A filename \in {"scan.png", "scan.gif"}, upload \in UploadKinds,
                    corr \in ApiCorrelations :
                    VerifyAuthenticityEndpoint(user_id, unique_id, filename, upload, corr)
                        => RefusedWith(IF filename = "scan.png" THEN {403} ELSE {400})]_vars

\* a refusal of /verify-secure while the owner still has scans left
C30_Witness ==
    /\ resp # None /\ resp.endpoint = "verify-secure" /\ resp.status = 403
    /\ documents[resp.unique_id] # NoRow
    /\ documents[resp.unique_id].scan_count > 0
    /\ documents[resp.unique_id].scan_count < documents[resp.unique_id].scan_limit


============================================================================
